---- MODULE Spec2Model ----
(***************************************************************************)
(* A model of the portfolio desktop backend (src-tauri/src/main.rs): the   *)
(* Yahoo history fetcher, the price store merge and flush of a history     *)
(* sync pass, the split reconciler, the position timeline builder and the  *)
(* coverage analyzer.                                                      *)
(*                                                                         *)
(* f64 values are modelled as exact rationals [n, d] in lowest terms, an   *)
(* Option<T> as a sequence of length 0 (None) or 1 (Some), a calendar date *)
(* as a day number and a Unix timestamp as DayLen ticks per day.           *)
(***************************************************************************)
EXTENDS Integers, Sequences, FiniteSets, TLC

\* ---------------------------------------------------------------- bounds
\* The last calendar day of the model; Utc::now().date_naive() is Today.
MaxDate == 2
\* Ticks per calendar day of a provider timestamp (86400 seconds in chrono).
DayLen == 2
\* Bars (timestamps) in one provider payload of a sync pass.
MaxBars == 2
\* Sync passes one run slot may start.
MaxPasses == 1
\* The most split events of a symbol, and the largest numerator or denominator.
MaxSplits == 2
MaxRatio == 2
\* The most transactions of the symbol whose timeline is built.
MaxReplay == 2
MaxTokens == 3
\* The days the coverage window reaches back from today (15 * 365 in the source).
Lookback == 6
\* The longest ledger of transactions of the readiness stats.
MaxTxns == 2

Dates == 1..MaxDate
Today == MaxDate

\* ------------------------------------------------------- numbers, options
RECURSIVE Gcd(_, _)
Gcd(a, b) == IF b = 0 THEN a ELSE Gcd(b, a % b)

Abs(x) == IF x < 0 THEN -x ELSE x

\* The rational n/d (d # 0) in lowest terms with a positive denominator.
Rat(n, d) ==
  LET g == Gcd(Abs(n), Abs(d))
      s == IF d < 0 THEN -1 ELSE 1
  IN [n |-> (s * n) \div g, d |-> (s * d) \div g]

Num(k) == [n |-> k, d |-> 1]
Zero == Num(0)
One == Num(1)
RMul(a, b) == Rat(a.n * b.n, a.d * b.d)
RAdd(a, b) == Rat(a.n * b.d + b.n * a.d, a.d * b.d)
RSub(a, b) == Rat(a.n * b.d - b.n * a.d, a.d * b.d)
RDiv(a, b) == Rat(a.n * b.d, a.d * b.n)
RLess(a, b) == a.n * b.d < b.n * a.d
RLeq(a, b) == a.n * b.d <= b.n * a.d
RMax(a, b) == IF RLess(a, b) THEN b ELSE a

None == << >>
Some(x) == << x >>
IsSome(o) == Len(o) = 1
Get(o) == o[1]

\* Vec::get(idx).and_then(|v| *v) on a Vec<Option<f64>>; idx counts from 1 here.
GetFlat(vec, idx) == IF idx \in DOMAIN vec THEN vec[idx] ELSE None

\* The text of a CSV cell: a formatted number, a word, or the empty cell.
TextNum(x) == [t |-> "num", s |-> "", v |-> x]
TextStr(w) == [t |-> "str", s |-> w, v |-> Zero]
TextEmpty == [t |-> "empty", s |-> "", v |-> Zero]
TextOfOpt(o) == IF IsSome(o) THEN TextNum(Get(o)) ELSE TextEmpty

\* parse_f64_str: keeps digits, '.', '-' and '+', then parses; a formatted
\* number parses back, an empty cell and a word without digits give None.
parse_f64_str(text) == IF text.t = "num" THEN Some(text.v) ELSE None

\* ------------------------------------------------------------- sequences
\* Insert x into s, sorted by date, behind the entries of equal date;
\* slice::sort_by and sort_by_key are stable.
RECURSIVE InsertByDate(_, _, _)
InsertByDate(x, s, desc) ==
  IF s = << >> THEN << x >>
  ELSE IF (IF desc THEN Head(s).date < x.date ELSE x.date < Head(s).date)
       THEN << x >> \o s
       ELSE << Head(s) >> \o InsertByDate(x, Tail(s), desc)

RECURSIVE SortByDate(_, _)
SortByDate(s, desc) ==
  IF s = << >> THEN << >>
  ELSE InsertByDate(s[Len(s)], SortByDate(SubSeq(s, 1, Len(s) - 1), desc), desc)

\* entries.sort_by(|a, b| b.date.cmp(&a.date))
SortByDateDesc(s) == SortByDate(s, TRUE)
\* records.sort_by_key(|r| r.date)
SortByDateAsc(s) == SortByDate(s, FALSE)

IsSortedDesc(s) == \A i \in 1..(Len(s) - 1) : s[i].date >= s[i + 1].date
IsSortedAsc(s) == \A i \in 1..(Len(s) - 1) : s[i].date <= s[i + 1].date
DatesOf(s) == { s[i].date : i \in DOMAIN s }
MinDate(s) == CHOOSE d \in DatesOf(s) : \A e \in DatesOf(s) : d <= e

\* ------------------------------------------------------ symbols and files
\* A symbol is its sequence of characters.
ReplaceChar(s, from, to) == [i \in DOMAIN s |-> IF s[i] = from THEN to ELSE s[i]]
\* symbol.replace(':', "_")
SafeSymbol(symbol) == ReplaceChar(symbol, ":", "_")
\* file_stem.replace('_', ":")
SymbolOfFile(stem) == ReplaceChar(stem, "_", ":")

SymA == << "A" >>
SymB == << "T", ":", "B" >>
Symbols == { SymA, SymB }
EmptyStock == << >>

\* haystack.contains(needle) on character sequences.
Contains(haystack, needle) ==
  \E i \in 0..(Len(haystack) - Len(needle)) :
     \A j \in 1..Len(needle) : haystack[i + j] = needle[j]

UsTickers == << "U", "S", " ", "t", "i", "c", "k", "e", "r", "s" >>

\* ----------------------------------------------------------- price files
\* date.format("%Y-%m-%d") and NaiveDate::parse_from_str(.., "%Y-%m-%d").
DateText(d) == [t |-> "date", s |-> "", v |-> Num(d)]
BadDateText == [t |-> "str", s |-> "not-a-date", v |-> Zero]
ParseDate(text) == IF text.t = "date" THEN Some(text.v.n) ELSE None

YahooSource == TextStr("yahoo_finance")

\* One data row of build_price_csv_content, cells in the order of
\* PRICE_FILE_HEADER (the updated_at cell, a wall-clock time, is left out).
CsvRow(e) ==
  << DateText(e.date), TextNum(e.close), TextOfOpt(e.open), TextOfOpt(e.high),
     TextOfOpt(e.low), TextOfOpt(e.volume), TextOfOpt(e.adjusted_close),
     TextOfOpt(e.split_unadjusted_close), e.source >>

build_price_csv_content(entries) == [i \in DOMAIN entries |-> CsvRow(entries[i])]

\* record.get(k) with k counted from 0 as in the source.
Cell(row, k) == row[k + 1]

\* The PriceRecordEntry load_price_records builds from one row of a file.
LoadedRecord(symbol, row) ==
  [symbol |-> symbol,
   date |-> Get(ParseDate(Cell(row, 0))),
   close |-> (LET c == parse_f64_str(Cell(row, 1)) IN IF IsSome(c) THEN Get(c) ELSE Zero),
   open |-> parse_f64_str(Cell(row, 2)),
   high |-> parse_f64_str(Cell(row, 3)),
   low |-> parse_f64_str(Cell(row, 4)),
   volume |-> parse_f64_str(Cell(row, 5)),
   adjusted_close |-> None,
   split_unadjusted_close |-> None,
   source |-> Cell(row, 6)]

\* The rows of a file that load_price_records keeps: at least 3 cells and a
\* date that parses.
UsableRows(rows) ==
  SelectSeq(rows, LAMBDA row : Len(row) >= 3 /\ IsSome(ParseDate(Cell(row, 0))))

\* A pass that starts from nothing, whatever the store holds.
load_no_records(files) == << >>

\* load_price_records followed by the grouping by symbol of its callers:
\* the map from each symbol with at least one usable row to its records.
load_price_records(files) ==
  LET stems == { f \in DOMAIN files : UsableRows(files[f]) # << >> }
      syms == { SymbolOfFile(f) : f \in stems }
      stemOf(sym) == CHOOSE f \in stems : SymbolOfFile(f) = sym
  IN [sym \in syms |->
        LET rows == UsableRows(files[stemOf(sym)])
        IN [i \in DOMAIN rows |-> LoadedRecord(sym, rows[i])]]

\* ------------------------------------------------- remote history fetcher
\* DateTime::from_timestamp(ts, 0).date_naive()
DateOfTs(ts) == ts \div DayLen
\* A timestamp of day d, tick k of the day.
TsOf(d, k) == d * DayLen + k

\* A fold that also takes the splits of the record's own date.
RECURSIVE SplitUnadjustedOnOrAfter(_, _, _)
SplitUnadjustedOnOrAfter(price, splits_data, date) ==
  IF splits_data = << >> THEN price
  ELSE SplitUnadjustedOnOrAfter(IF Head(splits_data).date >= date
                                  THEN RMul(price, Head(splits_data).ratio)
                                  ELSE price,
                                Tail(splits_data), date)

\* The product of the ratios of the splits dated strictly after date, applied
\* to price in list order: .filter(|(d, _)| *d > date).fold(*close, |p, (_, r)| p * r)
RECURSIVE SplitUnadjusted(_, _, _)
SplitUnadjusted(price, splits_data, date) ==
  IF splits_data = << >> THEN price
  ELSE SplitUnadjusted(IF Head(splits_data).date > date
                         THEN RMul(price, Head(splits_data).ratio)
                         ELSE price,
                       Tail(splits_data), date)

\* splits_data: (date, numerator / denominator) of each split event of the
\* payload, sorted by date.
SplitsData(payload) ==
  SortByDateAsc([i \in DOMAIN payload.splits |->
     [date |-> DateOfTs(payload.splits[i].date),
      ratio |-> RDiv(payload.splits[i].numerator, payload.splits[i].denominator)]])

\* The record fetch_yahoo_chunk pushes for the bar at index idx.
FetchedRecord(payload, canonical_symbol, idx) ==
  LET date == DateOfTs(payload.timestamp[idx])
      close == Get(payload.close[idx])
  IN [symbol |-> canonical_symbol,
      date |-> date,
      close |-> close,
      open |-> GetFlat(payload.open, idx),
      high |-> GetFlat(payload.high, idx),
      low |-> GetFlat(payload.low, idx),
      volume |-> GetFlat(payload.volume, idx),
      adjusted_close |-> GetFlat(payload.adjclose, idx),
      split_unadjusted_close |-> Some(SplitUnadjusted(close, SplitsData(payload), date)),
      source |-> YahooSource]

\* A filter that drops the bars of the start date itself.
KeptAfterStart(payload, idx, start, end) ==
  LET date == DateOfTs(payload.timestamp[idx])
  IN /\ ~(date <= start \/ date > end)
     /\ IsSome(GetFlat(payload.close, idx))

\* The bars kept: date within [start, end] and a non-null close at the index.
KeptBar(payload, idx, start, end) ==
  LET date == DateOfTs(payload.timestamp[idx])
  IN /\ ~(date < start \/ date > end)
     /\ IsSome(GetFlat(payload.close, idx))

RECURSIVE FetchedRecords(_, _, _, _, _)
FetchedRecords(payload, canonical_symbol, start, end, idx) ==
  IF idx > Len(payload.timestamp) THEN << >>
  ELSE (IF KeptBar(payload, idx, start, end)
          THEN << FetchedRecord(payload, canonical_symbol, idx) >>
          ELSE << >>)
       \o FetchedRecords(payload, canonical_symbol, start, end, idx + 1)

\* The dividends of the payload within [start, end], newest first; the events
\* come in the iteration order of the payload's map.
FetchedDividends(payload, start, end) ==
  LET all == [i \in DOMAIN payload.dividends |->
                [date |-> DateOfTs(payload.dividends[i].date),
                 amount |-> payload.dividends[i].amount]]
  IN SortByDateDesc(SelectSeq(all, LAMBDA d : d.date >= start /\ d.date <= end))

FetchErr(msg) ==
  [ok |-> FALSE, err |-> msg, records |-> << >>, dividends |-> << >>, meta |-> None]

\* fetch_yahoo_chunk on the provider's answer. payload.kind tells how far the
\* request and the decoding get; the HTTP status is read but never tested.
fetch_yahoo_chunk(payload, canonical_symbol, start, end) ==
  CASE payload.kind = "send_error" -> FetchErr("Yahoo request failed")
    [] payload.kind = "empty_body" -> FetchErr("Empty response from Yahoo Finance")
    [] payload.kind = "bad_json" -> FetchErr("Invalid Yahoo JSON")
    [] payload.kind = "no_result" -> FetchErr("Yahoo response missing result")
    [] payload.kind = "no_indicators" -> FetchErr("Yahoo response missing indicators")
    [] payload.kind = "no_quote" -> FetchErr("Yahoo response missing quote values")
    [] OTHER ->
         [ok |-> TRUE, err |-> "",
          records |-> FetchedRecords(payload, canonical_symbol, start, end, 1),
          dividends |-> FetchedDividends(payload, start, end),
          meta |-> payload.meta]

\* ------------------------------------------------------------ price store
\* The index of the first entry with the date, or 0:
\* entries.iter_mut().find(|r| r.date == record.date)
FindDate(entries, date) ==
  IF \E i \in DOMAIN entries : entries[i].date = date
  THEN CHOOSE i \in DOMAIN entries :
         /\ entries[i].date = date
         /\ \A j \in 1..(i - 1) : entries[j].date # date
  ELSE 0

\* A merge loop that pushes every record.
PushAlways(entries, record) == Append(entries, record)

\* One round of the merge loop: replace the entry of the same date or push.
MergeOne(entries, record) ==
  LET i == FindDate(entries, record.date)
  IN IF i # 0 THEN [entries EXCEPT ![i] = record] ELSE Append(entries, record)

RECURSIVE MergeAll(_, _)
MergeAll(entries, new_records) ==
  IF new_records = << >> THEN entries
  ELSE MergeAll(MergeOne(entries, Head(new_records)), Tail(new_records))

\* The merge of ensure_history_for_symbol, with its trailing sort.
MergeRecords(entries, new_records) == SortByDateDesc(MergeAll(entries, new_records))

\* A guard that asks for records strictly before earliest_date.
NeedsFetchStrict(records_map, symbol, earliest_date) ==
  ~(/\ symbol \in DOMAIN records_map
    /\ records_map[symbol] # << >>
    /\ MinDate(records_map[symbol]) < earliest_date)

\* The guard of ensure_history_for_symbol: a fetch is needed unless the
\* symbol has records and the earliest is on or before earliest_date.
NeedsFetch(records_map, symbol, earliest_date) ==
  ~(/\ symbol \in DOMAIN records_map
    /\ records_map[symbol] # << >>
    /\ MinDate(records_map[symbol]) <= earliest_date)

\* all_dividends after sort (newest first) and dedup_by_key: of a run of
\* equal dates the first entry is kept.
RECURSIVE DedupByDate(_)
DedupByDate(s) ==
  IF Len(s) <= 1 THEN s
  ELSE LET rest == DedupByDate(Tail(s))
       IN IF Head(s).date = Head(rest).date
          THEN << Head(s) >> \o Tail(rest)
          ELSE << Head(s) >> \o rest

DividendCsv(all_dividends) == DedupByDate(SortByDateDesc(all_dividends))

\* std::fs::write(path, content): the file is created or replaced.
WriteFile(files, stem, content) ==
  [f \in DOMAIN files \cup {stem} |-> IF f = stem THEN content ELSE files[f]]

Ok == [ok |-> TRUE, msg |-> "", sym |-> << >>]
Err(msg, sym) == [ok |-> FALSE, msg |-> msg, sym |-> sym]
NoFetch == FetchErr("no request sent")

\* What a std::fs::write that fails leaves: the file "untouched" (it could
\* not be opened), or "partial": truncated, with none of the content yet.
FailedWrite(files, stem, content, fate) ==
  IF fate = "partial" THEN WriteFile(files, stem, SubSeq(content, 1, 0)) ELSE files

\* The fates of the two writes of ensure_history_for_symbol: both succeed, or
\* the metadata write or the dividend write fails.
WriteFates ==
  { [meta |-> "ok", div |-> "ok"], [meta |-> "untouched", div |-> "ok"],
    [meta |-> "partial", div |-> "ok"], [meta |-> "ok", div |-> "untouched"],
    [meta |-> "ok", div |-> "partial"] }

\* ensure_history_for_symbol as a function of the store, the provider's
\* answer env.payload and the fate env.fate of its two writes. The result
\* holds the Result, the new records_map, the new metadata and dividend
\* files, whether a request was sent and what fetch_yahoo_chunk returned.
ensure_history_for_symbol(records_map, metas, divs, symbol, earliest_date, env) ==
  LET same == [result |-> Ok, records_map |-> records_map, metas |-> metas,
               divs |-> divs, requested |-> FALSE, fetch |-> NoFetch]
      res == fetch_yahoo_chunk(env.payload, symbol, earliest_date, Today)
      sent == [same EXCEPT !.requested = TRUE, !.fetch = res]
      stem == SafeSymbol(symbol)
      entries == IF symbol \in DOMAIN records_map THEN records_map[symbol] ELSE << >>
      merged == IF res.records # << >>
                THEN [y \in DOMAIN records_map \cup {symbol} |->
                        IF y = symbol THEN MergeRecords(entries, res.records)
                        ELSE records_map[y]]
                ELSE records_map
      all_dividends == IF res.records # << >> THEN res.dividends ELSE << >>
      metas1 == IF IsSome(res.meta) THEN WriteFile(metas, stem, res.meta) ELSE metas
      div_csv == DividendCsv(all_dividends)
  IN IF ~NeedsFetch(records_map, symbol, earliest_date) THEN same
     ELSE IF ~res.ok THEN [sent EXCEPT !.result = Err(res.err, << >>)]
     ELSE IF IsSome(res.meta) /\ env.fate.meta # "ok"
       THEN [sent EXCEPT !.result = Err("Failed to write meta file for", symbol),
                         !.metas = FailedWrite(metas, stem, res.meta, env.fate.meta)]
     ELSE IF all_dividends # << >> /\ env.fate.div # "ok"
       THEN [sent EXCEPT !.result = Err("Failed to write dividend file for", symbol),
                         !.records_map = merged, !.metas = metas1,
                         !.divs = FailedWrite(divs, stem, div_csv, env.fate.div)]
     ELSE [sent EXCEPT !.records_map = merged, !.metas = metas1,
                       !.divs = IF all_dividends # << >>
                                THEN WriteFile(divs, stem, div_csv)
                                ELSE divs]

\* ------------------------------------------------------ sync orchestrator
Runs == { 1 }

VARIABLES transactions, priceFiles, dividendFiles, metaFiles, log,
          pc, passes, earliest_by_symbol, price_map, todo, cur, outcome,
          toSave, result, attempted, call, writes, faults, logStart

\* The input, the output so far and the stage of a computation that is
\* checked on its own (the split reconciler, the timeline, the coverage).
VARIABLES input, output, stage

pureVars == << input, output, stage >>

syncVars == << transactions, priceFiles, dividendFiles, metaFiles, log,
               pc, passes, earliest_by_symbol, price_map, todo, cur, outcome,
               toSave, result, attempted, call, writes, faults, logStart >>

vars == << syncVars, pureVars >>

Line(kind, sym, n) == [kind |-> kind, sym |-> sym, n |-> n]

\* The transactions with a stock whose date does not parse.
BadDates(txns) ==
  { i \in DOMAIN txns : txns[i].stock # EmptyStock /\ ~IsSome(ParseDate(txns[i].date)) }

\* earliest_by_symbol of sync_full_history, for transactions whose dates parse.
EarliestBySymbol(txns) ==
  LET stocks == { txns[i].stock : i \in DOMAIN txns } \ { EmptyStock }
      datesOf(sym) == { Get(ParseDate(txns[i].date)) : i \in { j \in DOMAIN txns : txns[j].stock = sym } }
  IN [sym \in stocks |-> CHOOSE d \in datesOf(sym) : \A e \in datesOf(sym) : d <= e]

\* The Transaction lists a sync pass reads: none, one or two symbols, a
\* symbol bought twice, a transaction without a stock, a malformed date.
Txn(stock, date) ==
  [date |-> date, stock |-> stock, transaction_type |-> << "b", "u", "y" >>,
   quantity |-> TextNum(One), split_ratio |-> TextEmpty]
SyncTxnLists ==
  { << >>,
    << Txn(SymA, DateText(1)) >>,
    << Txn(SymA, DateText(MaxDate)), Txn(SymA, DateText(1)), Txn(SymB, DateText(MaxDate)) >>,
    << Txn(EmptyStock, DateText(1)), Txn(SymB, DateText(1)), Txn(SymA, DateText(MaxDate)) >>,
    << Txn(SymA, DateText(1)), Txn(SymB, BadDateText) >> }

\* The provider's answers in a sync pass: up to MaxBars bars, the bar at
\* index i closing at i; an answer with two dividends of the same day and
\* metadata, with one bar or none; or a failed request.
NoBars ==
  [kind |-> "ok", status |-> 200, timestamp |-> << >>, close |-> << >>, open |-> << >>,
   high |-> << >>, low |-> << >>, volume |-> << >>, adjclose |-> << >>,
   dividends |-> << >>, splits |-> << >>, meta |-> None]
TwoDividends ==
  << [date |-> TsOf(Today, 0), amount |-> Num(1)],
     [date |-> TsOf(Today, DayLen - 1), amount |-> Num(2)] >>
BarLists == UNION { [1..n -> Dates] : n \in 0..MaxBars }
WithBars(bars) ==
  [NoBars EXCEPT !.timestamp = [i \in DOMAIN bars |-> TsOf(bars[i], 0)],
                 !.close = [i \in DOMAIN bars |-> Some(Num(i))]]
SyncPayloads ==
  { WithBars(bars) : bars \in BarLists }
  \cup { [WithBars(bars) EXCEPT !.dividends = TwoDividends, !.meta = Some(<< "meta" >>)] :
           bars \in { << >>, << Today >> } }
  \cup { [NoBars EXCEPT !.kind = "send_error"] }

\* The price stores a pass finds: empty, or the files an earlier pass wrote
\* for what the provider answered then.
StoredFile(symbol, bars) ==
  build_price_csv_content(
    MergeRecords(<< >>, FetchedRecords(WithBars(bars), symbol, 1, Today, 1)))
SyncStores ==
  { << >>,
    [f \in { SafeSymbol(SymA) } |-> StoredFile(SymA, << Today >>)],
    [f \in { SafeSymbol(SymA), SafeSymbol(SymB) } |->
       IF f = SafeSymbol(SymA) THEN StoredFile(SymA, << 1, Today >>)
       ELSE StoredFile(SymB, << Today >>)] }

\* The state of a run slot between two passes.
Idle(r) ==
  /\ pc' = [pc EXCEPT ![r] = "idle"]
  /\ earliest_by_symbol' = [earliest_by_symbol EXCEPT ![r] = << >>]
  /\ price_map' = [price_map EXCEPT ![r] = << >>]
  /\ todo' = [todo EXCEPT ![r] = {}]
  /\ cur' = [cur EXCEPT ![r] = << >>]
  /\ outcome' = [outcome EXCEPT ![r] = Ok]
  /\ toSave' = [toSave EXCEPT ![r] = {}]
  /\ result' = [result EXCEPT ![r] = Ok]
  /\ attempted' = [attempted EXCEPT ![r] = << >>]
  /\ call' = [call EXCEPT ![r] = << >>]
  /\ writes' = [writes EXCEPT ![r] = << >>]
  /\ faults' = [faults EXCEPT ![r] = 0]
  /\ logStart' = [logStart EXCEPT ![r] = 0]

\* No pass is running and nothing has been logged or written beside the
\* price store.
RunsIdle ==
  /\ dividendFiles = << >>
  /\ metaFiles = << >>
  /\ log = << >>
  /\ pc = [r \in Runs |-> "idle"]
  /\ passes = [r \in Runs |-> 0]
  /\ earliest_by_symbol = [r \in Runs |-> << >>]
  /\ price_map = [r \in Runs |-> << >>]
  /\ todo = [r \in Runs |-> {}]
  /\ cur = [r \in Runs |-> << >>]
  /\ outcome = [r \in Runs |-> Ok]
  /\ toSave = [r \in Runs |-> {}]
  /\ result = [r \in Runs |-> Ok]
  /\ attempted = [r \in Runs |-> << >>]
  /\ call = [r \in Runs |-> << >>]
  /\ writes = [r \in Runs |-> << >>]
  /\ faults = [r \in Runs |-> 0]
  /\ logStart = [r \in Runs |-> 0]

SyncInit ==
  /\ transactions \in SyncTxnLists
  /\ priceFiles \in SyncStores
  /\ RunsIdle

\* The sync orchestrator at rest, for the computations checked on their own.
SyncOff ==
  /\ transactions = << >>
  /\ priceFiles = << >>
  /\ RunsIdle

\* A run ends: sync_full_history returns res.
Return(r, res) ==
  /\ pc' = [pc EXCEPT ![r] = "done"]
  /\ result' = [result EXCEPT ![r] = res]

\* write_worker_log succeeds: one line is appended to the log.
Logged(line) == log' = Append(log, line)

\* sync_full_history is entered and logs "History worker started"; if the
\* log cannot be written the `?` returns the error.
Start(r) ==
  /\ pc[r] = "idle"
  /\ passes[r] < MaxPasses
  /\ passes' = [passes EXCEPT ![r] = @ + 1]
  /\ logStart' = [logStart EXCEPT ![r] = Len(log)]
  /\ \/ /\ Logged(Line("started", << >>, 0))
        /\ pc' = [pc EXCEPT ![r] = "load"]
        /\ UNCHANGED << result, faults >>
     \/ /\ Return(r, Err("Failed to write log", << >>))
        /\ faults' = [faults EXCEPT ![r] = 1]
        /\ UNCHANGED log
  /\ UNCHANGED << pureVars, transactions, priceFiles, dividendFiles, metaFiles,
                  earliest_by_symbol, price_map, todo, cur, outcome, toSave,
                  attempted, call, writes >>

\* write_worker_log fails at one of the later places a run writes the log:
\* the `?` returns the error from sync_full_history and nothing is appended.
LogFails(r) ==
  /\ \/ pc[r] \in { "loop", "outcome" }
     \/ pc[r] = "save" /\ toSave[r] = {}
     \/ pc[r] = "load" /\ transactions = << >>
  /\ Return(r, Err("Failed to write log", << >>))
  /\ faults' = [faults EXCEPT ![r] = 1]
  /\ UNCHANGED << pureVars, transactions, priceFiles, dividendFiles, metaFiles, log,
                  passes, earliest_by_symbol, price_map, todo, cur, outcome, toSave,
                  attempted, call, writes, logStart >>

\* No transactions: the pass logs it and returns Ok.
NoTransactions(r) ==
  /\ pc[r] = "load"
  /\ transactions = << >>
  /\ Logged(Line("no_transactions", << >>, 0))
  /\ Return(r, Ok)
  /\ UNCHANGED << pureVars, transactions, priceFiles, dividendFiles, metaFiles,
                  passes, earliest_by_symbol, price_map, todo, cur, outcome, toSave,
                  attempted, call, writes, faults, logStart >>

\* A transaction with a stock has a date that does not parse: the `?` of the
\* earliest-date loop returns the error from sync_full_history.
BadTransactionDate(r) ==
  /\ pc[r] = "load"
  /\ transactions # << >>
  /\ BadDates(transactions) # {}
  /\ Return(r, Err("Invalid transaction date", << >>))
  /\ UNCHANGED << pureVars, transactions, priceFiles, dividendFiles, metaFiles, log,
                  passes, earliest_by_symbol, price_map, todo, cur, outcome, toSave,
                  attempted, call, writes, faults, logStart >>

\* earliest_by_symbol is built and the price store is read into price_map.
LoadStore(r) ==
  /\ pc[r] = "load"
  /\ transactions # << >>
  /\ BadDates(transactions) = {}
  /\ earliest_by_symbol' = [earliest_by_symbol EXCEPT ![r] = EarliestBySymbol(transactions)]
  /\ price_map' = [price_map EXCEPT ![r] = load_price_records(priceFiles)]
  /\ todo' = [todo EXCEPT ![r] = DOMAIN EarliestBySymbol(transactions)]
  /\ pc' = [pc EXCEPT ![r] = "loop"]
  /\ UNCHANGED << pureVars, transactions, priceFiles, dividendFiles, metaFiles, log,
                  passes, cur, outcome, toSave, result, attempted, call, writes,
                  faults, logStart >>

\* The loop over earliest_by_symbol takes its next symbol (a HashMap yields
\* them in any order) and logs "Syncing history for".
NextSymbol(r) ==
  /\ pc[r] = "loop"
  /\ \E symbol \in todo[r] :
       /\ Logged(Line("syncing", symbol, earliest_by_symbol[r][symbol]))
       /\ cur' = [cur EXCEPT ![r] = symbol]
       /\ todo' = [todo EXCEPT ![r] = @ \ { symbol }]
  /\ pc' = [pc EXCEPT ![r] = "ensure"]
  /\ UNCHANGED << pureVars, transactions, priceFiles, dividendFiles, metaFiles,
                  passes, earliest_by_symbol, price_map, outcome, toSave, result,
                  attempted, call, writes, faults, logStart >>

\* ensure_history_for_symbol(app_handle, &mut price_map, symbol, *date).
Ensure(r) ==
  /\ pc[r] = "ensure"
  /\ \E payload \in SyncPayloads, fate \in WriteFates :
       LET env == [payload |-> payload, fate |-> fate]
           out == ensure_history_for_symbol(price_map[r], metaFiles, dividendFiles,
                                            cur[r], earliest_by_symbol[r][cur[r]], env)
       IN /\ price_map' = [price_map EXCEPT ![r] = out.records_map]
          /\ metaFiles' = out.metas
          /\ dividendFiles' = out.divs
          /\ outcome' = [outcome EXCEPT ![r] = out.result]
          /\ call' = [call EXCEPT ![r] =
                        [symbol |-> cur[r], requested |-> out.requested, fetch |-> out.fetch,
                         before |-> price_map[r], metas |-> metaFiles, divs |-> dividendFiles]]
          /\ attempted' = [attempted EXCEPT ![r] =
                             [y \in DOMAIN @ \cup { cur[r] } |->
                                IF y = cur[r]
                                THEN [requested |-> out.requested, fetched |-> out.fetch.ok,
                                      ok |-> out.result.ok]
                                ELSE @[y]]]
  /\ pc' = [pc EXCEPT ![r] = "outcome"]
  /\ UNCHANGED << pureVars, transactions, priceFiles, log, passes, earliest_by_symbol,
                  todo, cur, toSave, result, writes, faults, logStart >>

\* An outcome line that does not name the symbol.
OutcomeLineUnnamed(symbol, res) ==
  IF res.ok THEN Line("finished", << >>, 0) ELSE Line("failed", << >>, 0)

\* The line the match on the Result of ensure_history_for_symbol logs.
OutcomeLine(symbol, res) ==
  IF res.ok THEN Line("finished", symbol, 0)
  ELSE IF Contains(res.sym, UsTickers) THEN Line("skipped", symbol, 0)
  ELSE Line("failed", symbol, 0)

\* A match whose Err arm returns the error.
AbortOnErr(res) == IF res.ok THEN "loop" ELSE "abort"

\* What the match does with the Result once it logged it: both arms fall
\* through to the next round of the loop; neither returns.
AfterOutcome(res) == "loop"

LogOutcome(r) ==
  /\ pc[r] = "outcome"
  /\ Logged(OutcomeLine(cur[r], outcome[r]))
  /\ IF AfterOutcome(outcome[r]) = "loop"
     THEN pc' = [pc EXCEPT ![r] = "loop"] /\ UNCHANGED result
     ELSE Return(r, outcome[r])
  /\ UNCHANGED << pureVars, transactions, priceFiles, dividendFiles, metaFiles,
                  passes, earliest_by_symbol, price_map, todo, cur, outcome, toSave,
                  attempted, call, writes, faults, logStart >>

\* for records in price_map.values_mut() { records.sort_by(..) }
SortAll(records_map) == [sym \in DOMAIN records_map |-> SortByDateDesc(records_map[sym])]

RECURSIVE SumRows(_, _)
SumRows(records_map, syms) ==
  IF syms = {} THEN 0
  ELSE LET x == CHOOSE y \in syms : TRUE
       IN Len(records_map[x]) + SumRows(records_map, syms \ { x })

\* price_map.values().map(|v| v.len()).sum()
TotalRows(records_map) == SumRows(records_map, DOMAIN records_map)

\* Every symbol is done: the series are sorted and "Saving N price rows" is logged.
BeginSave(r) ==
  /\ pc[r] = "loop"
  /\ todo[r] = {}
  /\ price_map' = [price_map EXCEPT ![r] = SortAll(@)]
  /\ Logged(Line("saving", << >>, TotalRows(price_map[r])))
  /\ toSave' = [toSave EXCEPT ![r] = DOMAIN price_map[r]]
  /\ pc' = [pc EXCEPT ![r] = "save"]
  /\ UNCHANGED << pureVars, transactions, priceFiles, dividendFiles, metaFiles,
                  passes, earliest_by_symbol, todo, cur, outcome, result, attempted,
                  call, writes, faults, logStart >>

\* A save that writes a series in the order it has in memory, oldest first
\* where the memory is newest first.
SavedOldestFirst(records) == build_price_csv_content(SortByDateAsc(records))

\* The content save_price_records writes for one series.
SavedContent(records) == build_price_csv_content(SortByDateDesc(records))

\* One round of the loop of save_price_records: a series is written out.
SaveOne(r) ==
  /\ pc[r] = "save"
  /\ \E symbol \in toSave[r] :
       LET content == SavedContent(price_map[r][symbol])
       IN /\ priceFiles' = WriteFile(priceFiles, SafeSymbol(symbol), content)
          /\ writes' = [writes EXCEPT ![r] = Append(@, [symbol |-> symbol, rows |-> content])]
          /\ toSave' = [toSave EXCEPT ![r] = @ \ { symbol }]
  /\ UNCHANGED << pureVars, transactions, dividendFiles, metaFiles, log, pc, passes,
                  earliest_by_symbol, price_map, todo, cur, outcome, result, attempted,
                  call, faults, logStart >>

\* persist_price_file_content fails: save_price_records returns the error,
\* and so does sync_full_history.
SaveFails(r) ==
  /\ pc[r] = "save"
  /\ \E symbol \in toSave[r], fate \in { "untouched", "partial" } :
       /\ priceFiles' = FailedWrite(priceFiles, SafeSymbol(symbol),
                                    SavedContent(price_map[r][symbol]), fate)
       /\ Return(r, Err("Failed to write price file for", symbol))
  /\ faults' = [faults EXCEPT ![r] = 1]
  /\ UNCHANGED << pureVars, transactions, dividendFiles, metaFiles, log, passes,
                  earliest_by_symbol, price_map, todo, cur, outcome, toSave, attempted,
                  call, writes, logStart >>

\* save_price_records returned Ok: "History worker completed" and Ok(()).
Complete(r) ==
  /\ pc[r] = "save"
  /\ toSave[r] = {}
  /\ Logged(Line("completed", << >>, 0))
  /\ Return(r, Ok)
  /\ UNCHANGED << pureVars, transactions, priceFiles, dividendFiles, metaFiles,
                  passes, earliest_by_symbol, price_map, todo, cur, outcome, toSave,
                  attempted, call, writes, faults, logStart >>

\* The command has returned; the run slot is free for the next pass.
Finish(r) ==
  /\ pc[r] = "done"
  /\ Idle(r)
  /\ UNCHANGED << pureVars, transactions, priceFiles, dividendFiles, metaFiles, log,
                  passes >>

SyncNext ==
  \E r \in Runs :
     \/ Start(r) \/ NoTransactions(r) \/ BadTransactionDate(r) \/ LoadStore(r)
     \/ NextSymbol(r) \/ Ensure(r) \/ LogOutcome(r) \/ BeginSave(r)
     \/ SaveOne(r) \/ SaveFails(r) \/ Complete(r) \/ LogFails(r) \/ Finish(r)

NoPure == input = << >> /\ output = << >> /\ stage = "off"

\* History sync passes, one after the other.
Init == SyncInit /\ NoPure
Next == SyncNext
Spec == Init /\ [][Next]_vars

\* ------------------------------------------------------ split reconciler
\* v.trim().parse::<f64>().ok()
ParseF64(text) == IF text.t = "num" THEN Some(text.v) ELSE None

\* record.get(k): the cell, if the row has one at k.
CellOpt(row, k) == IF k + 1 \in DOMAIN row THEN Some(row[k + 1]) ELSE None

\* .get(k).and_then(parse).unwrap_or(1.0).max(1.0) of load_split_events.
SplitTerm(row, k) ==
  LET cell == CellOpt(row, k)
      parsed == IF IsSome(cell) THEN ParseF64(Get(cell)) ELSE None
  IN RMax(IF IsSome(parsed) THEN Get(parsed) ELSE One, One)

\* A ratio taken upside down.
InvertedRatio(numerator, denominator) == RDiv(denominator, numerator)

\* numerator / denominator
SplitRatio(numerator, denominator) == RDiv(numerator, denominator)

\* load_split_events: the (date, ratio) of every row of the symbol's split
\* file with three cells and a date that parses, sorted by date; no file, no
\* events.
load_split_events(splitFiles, symbol) ==
  LET stem == SafeSymbol(symbol)
      rows == IF stem \in DOMAIN splitFiles THEN splitFiles[stem] ELSE << >>
      kept == SelectSeq(rows, LAMBDA row :
                /\ Len(row) >= 3
                /\ IsSome(ParseDate(Cell(row, 0)))
                /\ RLess(Zero, SplitTerm(row, 1))
                /\ RLess(Zero, SplitTerm(row, 2)))
  IN SortByDateAsc([i \in DOMAIN kept |->
       [date |-> Get(ParseDate(Cell(kept[i], 0))),
        ratio |-> SplitRatio(SplitTerm(kept[i], 1), SplitTerm(kept[i], 2))]])

\* A reconciler that also adjusts the records of the split's own date.
RECURSIVE FactorOnOrBefore(_, _)
FactorOnOrBefore(split_events, date) ==
  IF split_events = << >> THEN One
  ELSE LET rest == FactorOnOrBefore(Tail(split_events), date)
       IN IF date <= Head(split_events).date
          THEN RMul(Head(split_events).ratio, rest)
          ELSE rest

\* The factor of one record: the product, in list order, of the ratio of
\* every split event the record's date is before.
RECURSIVE AdjustFactor(_, _)
AdjustFactor(split_events, date) ==
  IF split_events = << >> THEN One
  ELSE LET rest == AdjustFactor(Tail(split_events), date)
       IN IF date < Head(split_events).date
          THEN RMul(Head(split_events).ratio, rest)
          ELSE rest

\* if let Some(x) = field.as_mut() { *x *= factor }
ScaleOpt(o, factor) == IF IsSome(o) THEN Some(RMul(Get(o), factor)) ELSE None

\* The Split Reconciler on one record: close, open, high and low are scaled.
Reconciled(record, split_events) ==
  LET factor == AdjustFactor(split_events, record.date)
  IN [record EXCEPT !.close = RMul(@, factor), !.open = ScaleOpt(@, factor),
                    !.high = ScaleOpt(@, factor), !.low = ScaleOpt(@, factor)]

\* The PriceRecordEntry load_price_history_for_symbol builds from one row.
HistoryRecord(symbol, row) ==
  LET num(k) == IF IsSome(CellOpt(row, k)) THEN parse_f64_str(Cell(row, k)) ELSE None
  IN [symbol |-> symbol,
      date |-> Get(ParseDate(Cell(row, 0))),
      close |-> IF IsSome(num(1)) THEN Get(num(1)) ELSE Zero,
      open |-> num(2),
      high |-> num(3),
      low |-> num(4),
      volume |-> num(5),
      adjusted_close |-> None,
      split_unadjusted_close |-> None,
      source |-> IF IsSome(CellOpt(row, 6)) THEN Cell(row, 6) ELSE TextStr("manual")]

\* load_price_history_for_symbol: the symbol's price file, oldest first,
\* with the Split Reconciler applied if the symbol has split events.
load_price_history_for_symbol(files, splitFiles, symbol) ==
  LET stem == SafeSymbol(symbol)
      rows == SelectSeq(files[stem], LAMBDA row : Len(row) >= 2)
      records == SortByDateAsc([i \in DOMAIN rows |-> HistoryRecord(symbol, rows[i])])
      split_events == load_split_events(splitFiles, symbol)
      failed(msg) == [ok |-> FALSE, err |-> msg, records |-> << >>]
  IN IF stem \notin DOMAIN files THEN failed("Price history not found for")
     ELSE IF \E i \in DOMAIN rows : ~IsSome(ParseDate(Cell(rows[i], 0)))
       THEN failed("Invalid price date for")
     ELSE IF rows = << >> THEN failed("No closing prices available for")
     ELSE [ok |-> TRUE, err |-> "",
           records |-> IF split_events # << >>
                       THEN [i \in DOMAIN records |-> Reconciled(records[i], split_events)]
                       ELSE records]

\* The split events of a symbol: (date, numerator, denominator), numerator and
\* denominator at least 1 as in a SplitEvent.
SplitEvents == Dates \X (1..MaxRatio) \X (1..MaxRatio)
SplitLists == UNION { [1..n -> SplitEvents] : n \in 0..MaxSplits }

\* The provider's answer for a symbol with these split events: one bar for
\* each day, newest first, some without open, low or volume.
SplitPayload(events) ==
  [NoBars EXCEPT
     !.timestamp = [i \in 1..MaxDate |-> TsOf(MaxDate + 1 - i, 0)],
     !.close = [i \in 1..MaxDate |-> Some(Num(i + 2))],
     !.open = << Some(Num(3)) >>,
     !.high = [i \in 1..MaxDate |-> Some(Num(i + 4))],
     !.low = << None, Some(Num(1)) >>,
     !.volume = << Some(Num(7)) >>,
     !.splits = [i \in DOMAIN events |->
                   [date |-> TsOf(events[i][1], DayLen - 1),
                    numerator |-> Num(events[i][2]),
                    denominator |-> Num(events[i][3])]]]

\* The row of a split file for an event: date,numerator,denominator.
SplitRow(event) == << DateText(event[1]), TextNum(Num(event[2])), TextNum(Num(event[3])) >>

SplitInit ==
  /\ SyncOff
  /\ input \in { [events |-> events] : events \in SplitLists }
  /\ output = [fetched |-> << >>, prices |-> << >>, splits |-> << >>,
               loaded |-> [ok |-> FALSE, err |-> "", records |-> << >>]]
  /\ stage = "split_start"

\* fetch_yahoo_chunk on the provider's answer.
SplitFetch ==
  /\ stage = "split_start"
  /\ output' = [output EXCEPT !.fetched =
                  fetch_yahoo_chunk(SplitPayload(input.events), SymA, 1, Today).records]
  /\ stage' = "split_fetched"
  /\ UNCHANGED << syncVars, input >>

\* The fetched series is merged and saved as the symbol's price file, and the
\* same split events are in the symbol's split file.
SplitStore ==
  /\ stage = "split_fetched"
  /\ output' = [output EXCEPT
                  !.prices = WriteFile(<< >>, SafeSymbol(SymA),
                                       SavedContent(MergeRecords(<< >>, output.fetched))),
                  !.splits = WriteFile(<< >>, SafeSymbol(SymA),
                                       [i \in DOMAIN input.events |-> SplitRow(input.events[i])])]
  /\ stage' = "split_stored"
  /\ UNCHANGED << syncVars, input >>

\* load_price_history_for_symbol on the two files.
SplitLoad ==
  /\ stage = "split_stored"
  /\ output' = [output EXCEPT !.loaded =
                  load_price_history_for_symbol(output.prices, output.splits, SymA)]
  /\ stage' = "split_loaded"
  /\ UNCHANGED << syncVars, input >>

SplitNext == SplitFetch \/ SplitStore \/ SplitLoad

\* A series is fetched, stored and read back through the Split Reconciler.
SpecSplit == SplitInit /\ [][SplitNext]_vars

\* ------------------------------------------------------ position timeline
\* str::to_lowercase on the letters that occur in transaction types.
ToLowerChar(c) ==
  IF c = "B" THEN "b" ELSE IF c = "P" THEN "p" ELSE IF c = "S" THEN "s" ELSE c
ToLower(w) == [i \in DOMAIN w |-> ToLowerChar(w[i])]

\* str::starts_with
StartsWith(w, prefix) ==
  Len(w) >= Len(prefix) /\ SubSeq(w, 1, Len(prefix)) = prefix

TyBuy == << "b", "u", "y" >>
TyPurchase == << "p", "u", "r", "c", "h", "a", "s", "e" >>
TySell == << "s", "e", "l", "l" >>
TySale == << "s", "a", "l", "e" >>
TySplit == << "s", "p", "l", "i", "t" >>

\* load_symbol_transactions: the transactions of the symbol as
\* ProcessedTransaction, sorted by date (stable); an error if there is none
\* or one has a date that does not parse.
load_symbol_transactions(all_txns, symbol) ==
  LET all == SelectSeq(all_txns, LAMBDA txn : txn.stock = symbol)
      ratio(txn) == IF txn.split_ratio.t = "empty" THEN One
                    ELSE LET parsed == parse_f64_str(txn.split_ratio)
                         IN IF IsSome(parsed) THEN Get(parsed) ELSE One
      quantity(txn) == LET parsed == parse_f64_str(txn.quantity)
                       IN IF IsSome(parsed) THEN Get(parsed) ELSE Zero
      processed == [i \in DOMAIN all |->
                      [date |-> Get(ParseDate(all[i].date)),
                       txn_type |-> ToLower(all[i].transaction_type),
                       quantity |-> quantity(all[i]),
                       split_ratio |-> IF RLess(Zero, ratio(all[i])) THEN ratio(all[i]) ELSE One]]
      failed(msg) == [ok |-> FALSE, err |-> msg, processed |-> << >>]
  IN IF all = << >> THEN failed("No transactions found for")
     ELSE IF \E i \in DOMAIN all : ~IsSome(ParseDate(all[i].date))
       THEN failed("Invalid transaction date")
     ELSE [ok |-> TRUE, err |-> "", processed |-> SortByDateAsc(processed)]

\* A loop condition that holds back the transactions of the price's own date.
TxnDueBefore(txn, price) == txn.date < price.date

\* The condition of the while loop beside idx < transactions.len().
TxnDue(txn, price) == txn.date <= price.date

\* The match of build_position_timeline on the transaction type: the shares
\* after the transaction.
ApplyTxn(shares, txn) ==
  IF StartsWith(txn.txn_type, TyBuy) \/ txn.txn_type = TyPurchase
    THEN RAdd(shares, txn.quantity)
  ELSE IF StartsWith(txn.txn_type, TySell) \/ txn.txn_type = TySale
    THEN RMax(RSub(shares, txn.quantity), Zero)
  ELSE IF Contains(txn.txn_type, TySplit)
    THEN (IF RLess(Zero, txn.split_ratio) THEN RMul(shares, txn.split_ratio) ELSE shares)
  ELSE shares

\* The raw Transactions of the symbol: trades of 10, 4 or -5 shares, splits
\* with a ratio of 2, none, a negative one or one that is no number, and a
\* type the timeline ignores.
ReplayTxn(date, type, quantity, ratio) ==
  [date |-> DateText(date), stock |-> SymA, transaction_type |-> type,
   quantity |-> quantity, split_ratio |-> ratio]
ReplayKinds ==
  { << << "B", "u", "y" >>, TextNum(Num(10)), TextEmpty >>,
    << TyBuy, TextNum(Num(-5)), TextEmpty >>,
    << << "P", "u", "r", "c", "h", "a", "s", "e" >>, TextNum(Num(4)), TextEmpty >>,
    << TySell, TextNum(Num(4)), TextEmpty >>,
    << TySell, TextNum(Num(10)), TextEmpty >>,
    << TySale, TextNum(Num(4)), TextEmpty >>,
    << TySplit, TextEmpty, TextNum(Num(2)) >>,
    << << "r", "-", "s", "p", "l", "i", "t" >>, TextEmpty, TextNum(Rat(1, 2)) >>,
    << TySplit, TextStr("x"), TextNum(Num(-2)) >>,
    << TySplit, TextEmpty, TextStr("2 for 1") >>,
    << << "f", "e", "e" >>, TextNum(Num(10)), TextEmpty >> }
ReplayTxns == { ReplayTxn(d, k[1], k[2], k[3]) : d \in Dates, k \in ReplayKinds }

\* ProcessedTransactions handed to build_position_timeline directly, with
\* split ratios load_symbol_transactions would not let through.
GivenTxns ==
  { [date |-> d, txn_type |-> k[1], quantity |-> k[2], split_ratio |-> k[3]] :
      d \in Dates,
      k \in { << TyBuy, Num(10), One >>, << TySell, Num(4), One >>,
              << TySplit, Zero, Zero >>, << TySplit, Zero, Num(-2) >>,
              << TySplit, Zero, Num(2) >> } }

\* The prices of the symbol, oldest first: 100 on the first day, 20 more on
\* each day after; of all days or of the first day only.
ReplayPrices(n) == [i \in 1..n |-> [date |-> i, close |-> Num(100 + 20 * (i - 1))]]

TimelineInit ==
  /\ SyncOff
  /\ input \in
       { [kind |-> "raw", txns |-> txns, prices |-> ReplayPrices(n)] :
           txns \in UNION { [1..m -> ReplayTxns] : m \in 0..MaxReplay }, n \in { 1, MaxDate } }
       \cup
       { [kind |-> "given", txns |-> txns, prices |-> ReplayPrices(MaxDate)] :
           txns \in { t \in UNION { [1..m -> GivenTxns] : m \in 1..MaxReplay } : IsSortedAsc(t) } }
  /\ output = [processed |-> << >>, idx |-> 0, shares |-> Zero, at |-> 1, results |-> << >>]
  /\ stage = "timeline_start"

\* load_symbol_transactions returns the ProcessedTransactions, or an error.
TimelineLoad ==
  /\ stage = "timeline_start"
  /\ input.kind = "raw"
  /\ LET loaded == load_symbol_transactions(input.txns, SymA)
     IN IF loaded.ok
        THEN /\ output' = [output EXCEPT !.processed = loaded.processed]
             /\ stage' = "timeline_loop"
        ELSE /\ stage' = "timeline_failed"
             /\ UNCHANGED output
  /\ UNCHANGED << syncVars, input >>

\* build_position_timeline is called on ProcessedTransactions as they are.
TimelineGiven ==
  /\ stage = "timeline_start"
  /\ input.kind = "given"
  /\ output' = [output EXCEPT !.processed = input.txns]
  /\ stage' = "timeline_loop"
  /\ UNCHANGED << syncVars, input >>

\* One round of the while loop: the transaction at idx is applied.
TimelineApply ==
  /\ stage = "timeline_loop"
  /\ output.at <= Len(input.prices)
  /\ output.idx < Len(output.processed)
  /\ TxnDue(output.processed[output.idx + 1], input.prices[output.at])
  /\ output' = [output EXCEPT !.shares = ApplyTxn(@, output.processed[output.idx + 1]),
                              !.idx = @ + 1]
  /\ UNCHANGED << syncVars, input, stage >>

\* The while loop is over for this price: its point is pushed.
TimelineEmit ==
  /\ stage = "timeline_loop"
  /\ output.at <= Len(input.prices)
  /\ ~(/\ output.idx < Len(output.processed)
       /\ TxnDue(output.processed[output.idx + 1], input.prices[output.at]))
  /\ output' = [output EXCEPT
                  !.results = Append(@, [date |-> DateText(input.prices[output.at].date),
                                         close |-> input.prices[output.at].close,
                                         shares |-> output.shares]),
                  !.at = @ + 1]
  /\ UNCHANGED << syncVars, input, stage >>

\* The for loop is over: build_position_timeline returns results.
TimelineReturn ==
  /\ stage = "timeline_loop"
  /\ output.at > Len(input.prices)
  /\ stage' = "timeline_done"
  /\ UNCHANGED << syncVars, input, output >>

TimelineNext ==
  TimelineLoad \/ TimelineGiven \/ TimelineApply \/ TimelineEmit \/ TimelineReturn

\* The transactions of a symbol are replayed against its prices.
SpecTimeline == TimelineInit /\ [][TimelineNext]_vars

\* ---------------------------------------------------------- data coverage
\* chrono's weekday of a day: days 5 and 6 of every seven are Saturday and
\* Sunday.
IsWeekend(day) == day % 7 \in { 5, 6 }

\* The while loop of get_data_coverage: the weekdays from current to today
\* that are not among price_dates.
RECURSIVE MissingFrom(_, _, _)
MissingFrom(current, today, price_dates) ==
  IF current > today THEN 0
  ELSE (IF ~IsWeekend(current) /\ current \notin price_dates THEN 1 ELSE 0)
       + MissingFrom(current + 1, today, price_dates)

\* The status of a coverage_percent.
CoverageStatus(coverage_percent) ==
  IF RLeq(Num(95), coverage_percent) THEN "complete"
  ELSE IF RLeq(Num(50), coverage_percent) THEN "partial"
  ELSE "missing"

\* The transactions get_data_coverage takes up: a stock, a date that parses
\* and is not before the window.
CoverageTxns(txns, fifteen_years_ago) ==
  SelectSeq(txns, LAMBDA txn :
    /\ txn.stock # EmptyStock
    /\ IsSome(ParseDate(txn.date))
    /\ Get(ParseDate(txn.date)) >= fifteen_years_ago)

\* get_data_coverage without its split counts: the StockDataCoverage of every
\* stock with a transaction in the window.
get_data_coverage(txns, files, today, include_completeness) ==
  LET fifteen_years_ago == today - Lookback
      taken == CoverageTxns(txns, fifteen_years_ago)
      price_records == load_price_records(files)
      earliest(sym) ==
        LET mine == SelectSeq(taken, LAMBDA txn : txn.stock = sym)
        IN MinDate([i \in DOMAIN mine |-> [date |-> Get(ParseDate(mine[i].date))]])
      blank(sym) ==
        [ticker |-> sym, earliest_transaction |-> earliest(sym), earliest_price |-> None,
         latest_price |-> None, total_days |-> 0, missing_days |-> 0,
         coverage_percent |-> Zero, status |-> "missing"]
      priced(sym) ==
        LET prices == price_records[sym]
            price_dates == DatesOf(prices)
            start_date == fifteen_years_ago
            total_days == today - start_date
            missing == MissingFrom(start_date, today, price_dates)
            coverage_percent == IF total_days > 0
                                THEN RMul(Rat(total_days - missing, total_days), Num(100))
                                ELSE Zero
            dated == [blank(sym) EXCEPT
                        !.earliest_price = Some(MinDate(prices)),
                        !.latest_price = Some(CHOOSE d \in price_dates :
                                                \A e \in price_dates : e <= d)]
        IN IF include_completeness
           THEN [dated EXCEPT !.total_days = total_days, !.missing_days = missing,
                              !.coverage_percent = coverage_percent,
                              !.status = CoverageStatus(coverage_percent)]
           ELSE [dated EXCEPT !.coverage_percent = Num(100), !.status = "complete"]
  IN [sym \in { taken[i].stock : i \in DOMAIN taken } |->
        IF sym \in DOMAIN price_records THEN priced(sym) ELSE blank(sym)]

\* A stored record of the symbol for the day.
PriceAt(symbol, date) ==
  [symbol |-> symbol, date |-> date, close |-> One, open |-> None, high |-> None,
   low |-> None, volume |-> None, adjusted_close |-> None,
   split_unadjusted_close |-> None, source |-> YahooSource]

\* The price file of a symbol with a record for each of the days.
RECURSIVE RecordsOn(_, _)
RecordsOn(symbol, days) ==
  IF days = {} THEN << >>
  ELSE LET d == CHOOSE x \in days : \A y \in days : y <= x
       IN << PriceAt(symbol, d) >> \o RecordsOn(symbol, days \ { d })

\* Today is any day of the week; the symbol was bought today or the day
\* before the window opens; its price file holds any of the window's days.
CoverageInit ==
  /\ SyncOff
  /\ input \in
       { [today |-> today, bought |-> bought, days |-> days, include_completeness |-> inc] :
           today \in Lookback..(Lookback + 6),
           bought \in { -1, 0 },
           days \in SUBSET (0..Lookback),
           inc \in BOOLEAN }
  /\ output = << >>
  /\ stage = "coverage_start"

\* The price store with a record of the symbol for each of the days.
CoverageStore(days) ==
  IF days = {} THEN << >>
  ELSE WriteFile(<< >>, SafeSymbol(SymB), build_price_csv_content(RecordsOn(SymB, days)))

\* The transactions of the coverage runs.
CoverageLedger ==
  << Txn(SymB, DateText(IF input.bought = 0 THEN input.today ELSE input.today - Lookback - 1)),
     Txn(SymA, DateText(input.today)) >>

\* The days of the price file, as calendar days.
CoverageDays == { input.today - Lookback + d : d \in input.days }

\* The get_data_coverage command.
CoverageRun ==
  /\ stage = "coverage_start"
  /\ output' = get_data_coverage(CoverageLedger, CoverageStore(CoverageDays), input.today,
                                 input.include_completeness)
  /\ stage' = "coverage_done"
  /\ UNCHANGED << syncVars, input >>

\* A record for one more day, in the window or a day off either end, is
\* stored for the symbol and the command is run again.
CoverageAgain ==
  /\ stage = "coverage_done"
  /\ \E day \in ((input.today - Lookback - 1)..(input.today + 1)) \ CoverageDays :
       output' = [before |-> output,
                  added |-> day,
                  after |-> get_data_coverage(CoverageLedger,
                                              CoverageStore(CoverageDays \cup { day }),
                                              input.today, input.include_completeness)]
  /\ stage' = "coverage_again"
  /\ UNCHANGED << syncVars, input >>

CoverageNext == CoverageRun \/ CoverageAgain

\* The coverage report is computed for a store and a day, and again with one
\* more stored price.
SpecCoverage == CoverageInit /\ [][CoverageNext]_vars

\* ------------------------------------------------ the fetcher on its own
\* The bars of an answer: each a day and whether its close is null.
FetchBars == UNION { [1..n -> Dates \X BOOLEAN] : n \in 0..MaxBars }

\* The dividend events of an answer in the iteration order of its map: each a
\* day and the first or the last tick of the day.
FetchDividends == UNION { [1..n -> Dates \X { 0, DayLen - 1 }] : n \in 0..MaxBars }

\* An answer with the bars; open, high, low, volume and adjclose are all
\* there ("all"), all missing ("none"), or short, null or missing ("mixed").
BarsPayload(bars, shape) ==
  LET full(k) == [i \in DOMAIN bars |-> Some(Num(10 * k + i))]
  IN [NoBars EXCEPT
        !.timestamp = [i \in DOMAIN bars |-> TsOf(bars[i][1], DayLen - 1)],
        !.close = [i \in DOMAIN bars |-> IF bars[i][2] THEN Some(Num(i)) ELSE None],
        !.open = IF shape = "all" THEN full(1)
                 ELSE IF shape = "mixed" /\ bars # << >> THEN << full(1)[1] >> ELSE << >>,
        !.high = IF shape = "all" THEN full(2)
                 ELSE IF shape = "mixed" THEN [i \in DOMAIN bars |-> None] ELSE << >>,
        !.low = IF shape = "none" THEN << >> ELSE full(3),
        !.volume = IF shape = "all" THEN full(4)
                   ELSE IF shape = "mixed"
                     THEN [i \in DOMAIN bars |-> IF i = 1 THEN None ELSE Some(Num(40 + i))]
                   ELSE << >>,
        !.adjclose = IF shape = "all" THEN full(5) ELSE << >>]

\* An answer with one bar today and the dividend events.
DividendPayload(events) ==
  [BarsPayload(<< << Today, TRUE >> >>, "all") EXCEPT
     !.dividends = [i \in DOMAIN events |->
                      [date |-> TsOf(events[i][1], events[i][2]), amount |-> Num(i)]]]

\* The answers of the provider: bars of every shape, dividend events, and
\* the responses that cannot be used; the status is 200 or, with the body of
\* a good answer or without a result, 500.
FetchPayloads ==
  { BarsPayload(bars, shape) : bars \in FetchBars, shape \in { "all", "none", "mixed" } }
  \cup { DividendPayload(events) : events \in FetchDividends }
  \cup { [BarsPayload(<< << Today, TRUE >> >>, "all") EXCEPT !.kind = kind, !.status = status] :
           kind \in { "ok", "send_error", "empty_body", "bad_json", "no_result",
                      "no_indicators", "no_quote" },
           status \in { 200, 500 } }

FetchInit ==
  /\ SyncOff
  /\ input \in { [payload |-> payload, start |-> start, end |-> end] :
                   payload \in FetchPayloads, start \in Dates, end \in Dates }
  /\ output = FetchErr("")
  /\ stage = "fetch_start"

\* fetch_yahoo_chunk(yahoo_symbol, canonical_symbol, start, end).
FetchRun ==
  /\ stage = "fetch_start"
  /\ output' = fetch_yahoo_chunk(input.payload, SymA, input.start, input.end)
  /\ stage' = "fetch_done"
  /\ UNCHANGED << syncVars, input >>

FetchNext == FetchRun

\* One request to the provider and the decoding of its answer.
SpecFetch == FetchInit /\ [][FetchNext]_vars

\* ------------------------------------------------------------ split files
\* The text "a:b".
TextColon(a, b) == [t |-> "colon", s |-> "", v |-> [n |-> a, d |-> b]]

\* v.trim().parse::<i32>().ok(): the text of a whole number.
ParseI32(text) == IF text.t = "num" /\ text.v.d = 1 THEN Some(text.v.n) ELSE None

\* i32::max
IntMax(a, b) == IF a > b THEN a ELSE b

\* f64::round of a positive value: to the nearest whole number, halves up.
Round(x) == (2 * x.n + x.d) \div (2 * x.d)

\* A ratio parser that rounds down.
ratio_components_floor(ratio) ==
  IF ratio.t = "empty" THEN << 1, 1 >>
  ELSE IF ratio.t = "colon" THEN << IntMax(ratio.v.n, 1), IntMax(ratio.v.d, 1) >>
  ELSE LET value == ParseF64(ratio)
       IN IF IsSome(value) /\ RLess(One, Get(value))
            THEN << Get(value).n \div Get(value).d, 1 >>
          ELSE IF IsSome(value) /\ RLess(Zero, Get(value))
            THEN << 1, IntMax(Get(value).d \div Get(value).n, 1) >>
          ELSE << 1, 1 >>

\* parse_ratio_components: (numerator, denominator) of a ratio text.
parse_ratio_components(ratio) ==
  IF ratio.t = "empty" THEN << 1, 1 >>
  ELSE IF ratio.t = "colon" THEN << IntMax(ratio.v.n, 1), IntMax(ratio.v.d, 1) >>
  ELSE LET value == ParseF64(ratio)
       IN IF IsSome(value) /\ RLess(One, Get(value))
            THEN << Round(Get(value)), 1 >>
          ELSE IF IsSome(value) /\ RLess(Zero, Get(value))
            THEN << 1, IntMax(Round(RDiv(One, Get(value))), 1) >>
          ELSE << 1, 1 >>

\* parse_price_field(fields.get(k))
parse_price_field(fields, k) ==
  IF IsSome(CellOpt(fields, k)) THEN ParseF64(Get(CellOpt(fields, k))) ELSE None

\* fields.get(k).and_then(parse::<i32>).unwrap_or(1).max(1) of get_split_history.
SplitPart(fields, k) ==
  LET cell == CellOpt(fields, k)
      parsed == IF IsSome(cell) THEN ParseI32(Get(cell)) ELSE None
  IN IntMax(IF IsSome(parsed) THEN Get(parsed) ELSE 1, 1)

\* The header row names a column "numerator" (names are kept in lower case).
HasFractionalHeader(header) == \E i \in DOMAIN header : header[i] = "numerator"

\* The SplitHistory get_split_history pushes for one line of a file.
SplitHistoryOf(ticker, has_fractional_header, fields) ==
  LET pair == IF has_fractional_header
                THEN << SplitPart(fields, 1), SplitPart(fields, 2) >>
                ELSE parse_ratio_components(IF IsSome(CellOpt(fields, 1))
                                              THEN Get(CellOpt(fields, 1)) ELSE TextEmpty)
  IN [ticker |-> ticker,
      date |-> fields[1],
      numerator |-> pair[1],
      denominator |-> pair[2],
      ratio |-> TextColon(pair[1], pair[2]),
      ratio_factor |-> Rat(pair[1], pair[2]),
      before_price |-> parse_price_field(fields, IF has_fractional_header THEN 3 ELSE 2),
      after_price |-> parse_price_field(fields, IF has_fractional_header THEN 4 ELSE 3)]

\* The place of a date text in the order of strings: a date that is no date
\* ("not-a-date") sorts behind every date.
DateKey(text) == IF text.t = "date" THEN text.v.n ELSE MaxDate + 1

\* The entries of the files in the order the directory gives them.
RECURSIVE SplitHistoryOfFiles(_, _)
SplitHistoryOfFiles(files, entries) ==
  IF entries = << >> THEN << >>
  ELSE LET file == files[Head(entries)]
           lines == SelectSeq(file.rows, LAMBDA fields :
                      fields # << >> /\ fields[1].t # "empty")
       IN [i \in DOMAIN lines |->
             SplitHistoryOf(SymbolOfFile(Head(entries)),
                            HasFractionalHeader(file.header), lines[i])]
          \o SplitHistoryOfFiles(files, Tail(entries))

\* get_split_history: the splits of every file, newest date first.
get_split_history(files, entries) ==
  LET splits == SplitHistoryOfFiles(files, entries)
      sorted == SortByDateDesc([i \in DOMAIN splits |->
                   [date |-> DateKey(splits[i].date), split |-> splits[i]]])
  IN [i \in DOMAIN sorted |-> sorted[i].split]

FractionalHeader == << "date", "numerator", "denominator", "before_price", "after_price" >>
LegacyHeader == << "date", "ratio", "before_price", "after_price" >>

\* The texts of a numerator or denominator cell.
SplitCells ==
  { TextNum(Num(k)) : k \in -1..MaxRatio } \cup { TextNum(Rat(1, 2)), TextStr("x"), TextEmpty }

\* The texts of a free-text ratio cell.
RatioTexts ==
  { TextNum(Rat(n, d)) : n \in -1..(2 * MaxRatio + 1), d \in 1..(2 * MaxRatio + 1) }
  \cup { TextColon(a, b) : a, b \in -1..MaxRatio }
  \cup { TextStr("x"), TextEmpty }

PriceTexts == { TextEmpty, TextNum(Num(5)) }

\* A file of one symbol.
OneFile(symbol, header, rows) ==
  [files |-> [stem \in { SafeSymbol(symbol) } |-> [header |-> header, rows |-> rows]],
   entries |-> << SafeSymbol(symbol) >>]

\* The same events in a fractional file of one symbol and a legacy file of
\* the other, each with its prices.
TwoFiles(events, before, after, entries) ==
  [files |-> [stem \in { SafeSymbol(SymA), SafeSymbol(SymB) } |->
       IF stem = SafeSymbol(SymA)
         THEN [header |-> FractionalHeader,
               rows |-> [i \in DOMAIN events |->
                  << DateText(events[i][1]), TextNum(Num(events[i][2])),
                     TextNum(Num(events[i][3])), before, after >>]]
         ELSE [header |-> LegacyHeader,
               rows |-> [i \in DOMAIN events |->
                  << DateText(events[i][1]), TextColon(events[i][2], events[i][3]),
                     before, after >>]]],
   entries |-> entries]

SplitStores ==
  { OneFile(SymA, FractionalHeader, << << date, numerator, denominator, before, TextEmpty >> >>) :
      date \in { DateText(1), BadDateText, TextEmpty },
      numerator \in SplitCells, denominator \in SplitCells, before \in PriceTexts }
  \cup { OneFile(SymB, LegacyHeader, << << DateText(1), ratio, before, TextEmpty >> >>) :
      ratio \in RatioTexts, before \in PriceTexts }
  \cup { TwoFiles(events, before, after, entries) :
      events \in SplitLists, before \in PriceTexts, after \in { TextEmpty },
      entries \in { << SafeSymbol(SymA), SafeSymbol(SymB) >>,
                    << SafeSymbol(SymB), SafeSymbol(SymA) >> } }

SplitFileInit ==
  /\ SyncOff
  /\ input \in SplitStores
  /\ output = [history |-> << >>, events |-> << >>]
  /\ stage = "splits_start"

\* get_split_history()
ReadHistory ==
  /\ stage \in { "splits_start", "splits_events" }
  /\ output' = [output EXCEPT !.history = get_split_history(input.files, input.entries)]
  /\ stage' = IF stage = "splits_start" THEN "splits_history" ELSE "splits_read"
  /\ UNCHANGED << syncVars, input >>

\* load_split_events(symbol) for every symbol.
ReadEvents ==
  /\ stage \in { "splits_start", "splits_history" }
  /\ output' = [output EXCEPT !.events =
        [symbol \in Symbols |->
           load_split_events([stem \in DOMAIN input.files |-> input.files[stem].rows], symbol)]]
  /\ stage' = IF stage = "splits_start" THEN "splits_events" ELSE "splits_read"
  /\ UNCHANGED << syncVars, input >>

SplitFileNext == ReadHistory \/ ReadEvents

\* The split files of the data directory and their two readers.
SpecSplitFile == SplitFileInit /\ [][SplitFileNext]_vars

\* ------------------------------------------------------ background worker
\* start_history_worker has not been called; no worker thread exists.
WorkerInit ==
  /\ SyncInit
  /\ input = << >>
  /\ output = [caller |-> "idle", res |-> Ok]
  /\ stage = "worker_none"

\* start_history_worker up to the spawn: it logs "Starting background history
\* worker" and creates the thread; if the log cannot be written the `?`
\* returns the error and no thread is created.
CallWorker ==
  /\ output.caller = "idle"
  /\ stage = "worker_none"
  /\ \/ /\ Logged(Line("starting_worker", << >>, 0))
        /\ stage' = "worker_spawned"
        /\ output' = [output EXCEPT !.caller = "spawned"]
     \/ /\ output' = [caller |-> "returned", res |-> Err("Failed to write log", << >>)]
        /\ UNCHANGED << log, stage >>
  /\ UNCHANGED << input, transactions, priceFiles, dividendFiles, metaFiles, pc, passes,
                  earliest_by_symbol, price_map, todo, cur, outcome, toSave, result,
                  attempted, call, writes, faults, logStart >>

\* start_history_worker after the spawn: Ok(()) goes back to the caller.
ReturnWorker ==
  /\ output.caller = "spawned"
  /\ output' = [caller |-> "returned", res |-> Ok]
  /\ UNCHANGED << syncVars, input, stage >>

\* A step of sync_full_history on the worker thread.
WorkerRun(r) ==
  \/ stage = "worker_spawned" /\ Start(r)
  \/ stage = "worker_spawned" /\ NoTransactions(r)
  \/ stage = "worker_spawned" /\ BadTransactionDate(r)
  \/ stage = "worker_spawned" /\ LoadStore(r)
  \/ stage = "worker_spawned" /\ NextSymbol(r)
  \/ stage = "worker_spawned" /\ Ensure(r)
  \/ stage = "worker_spawned" /\ LogOutcome(r)
  \/ stage = "worker_spawned" /\ BeginSave(r)
  \/ stage = "worker_spawned" /\ SaveOne(r)
  \/ stage = "worker_spawned" /\ SaveFails(r)
  \/ stage = "worker_spawned" /\ Complete(r)
  \/ stage = "worker_spawned" /\ LogFails(r)

\* A worker that ends without a word about the error.
WorkerExitSilent(r) ==
  /\ pc[r] = "done"
  /\ stage = "worker_spawned"
  /\ stage' = "worker_exited"
  /\ UNCHANGED << syncVars, input, output >>

\* The closure of the thread after sync_full_history returned: an Err is
\* logged as "History worker failed: ..", and the result of that write is
\* dropped (let _ =); then the thread ends.
WorkerExit(r) ==
  /\ pc[r] = "done"
  /\ stage = "worker_spawned"
  /\ \/ /\ result[r].ok
        /\ stage' = "worker_exited"
        /\ UNCHANGED log
     \/ /\ ~result[r].ok
        /\ Logged(Line("worker_failed", result[r].sym, 0))
        /\ stage' = "worker_exited"
     \/ /\ ~result[r].ok
        /\ stage' = "worker_exited_unlogged"
        /\ UNCHANGED log
  /\ UNCHANGED << input, output, transactions, priceFiles, dividendFiles, metaFiles,
                  pc, passes, earliest_by_symbol, price_map, todo, cur, outcome, toSave,
                  result, attempted, call, writes, faults, logStart >>

WorkerNext ==
  \/ CallWorker
  \/ ReturnWorker
  \/ \E r \in Runs : WorkerRun(r)
  \/ \E r \in Runs : WorkerExit(r)

\* The background worker: the caller goes on once the thread is spawned, and
\* the thread, once spawned, keeps running (its requests return) until it
\* ends.
SpecWorker ==
  /\ WorkerInit
  /\ [][WorkerNext]_vars
  /\ WF_vars(ReturnWorker)
  /\ \A r \in Runs : WF_vars(WorkerRun(r) \/ WorkerExit(r))

\* ------------------------------------------------------ provider symbols
\* A ticker is a sequence of pieces: names without a colon, and colons.
\* The place of the first colon of the ticker, 0 if it has none.
FirstColon(stock) ==
  IF \E i \in DOMAIN stock : stock[i] = ":"
    THEN CHOOSE i \in DOMAIN stock :
           stock[i] = ":" /\ \A j \in 1..(i - 1) : stock[j] # ":"
    ELSE 0

\* The exchange codes get_exchange_and_symbol knows.
KnownExchanges ==
  { << "NASDAQ" >>, << "NYSE" >>, << "NYSEARCA" >>, << "NYSEAMERICAN" >>,
    << "OTCMKTS" >>, << "TWSE" >>, << "JPX" >>, << "HKEX" >> }

\* A resolver that looks for the exchange before the colon only.
exchange_before_colon(stock) ==
  LET i == FirstColon(stock)
      first == SubSeq(stock, 1, i - 1)
      second == SubSeq(stock, i + 1, Len(stock))
  IN IF i # 0 /\ first \in KnownExchanges
       THEN [exchange |-> Some(first), base |-> second]
       ELSE [exchange |-> None, base |-> stock]

\* get_exchange_and_symbol: splitn(2, ':') and the known codes, the part
\* before the colon first.
get_exchange_and_symbol(stock) ==
  LET i == FirstColon(stock)
      first == SubSeq(stock, 1, i - 1)
      second == SubSeq(stock, i + 1, Len(stock))
  IN IF i = 0 THEN [exchange |-> None, base |-> stock]
     ELSE IF first \in KnownExchanges THEN [exchange |-> Some(first), base |-> second]
     ELSE IF second \in KnownExchanges THEN [exchange |-> Some(second), base |-> first]
     ELSE [exchange |-> None, base |-> stock]

\* yahoo_symbol_for: the base symbol with the suffix of the exchange.
yahoo_symbol_for(exchange, base_symbol) ==
  LET ex == IF IsSome(exchange) THEN Get(exchange) ELSE << >>
  IN CASE ex = << "HKEX" >> -> base_symbol \o << ".HK" >>
       [] ex \in { << "TWSE" >>, << "TPE" >> } -> base_symbol \o << ".TW" >>
       [] ex \in { << "JPX" >>, << "TYO" >> } -> base_symbol \o << ".T" >>
       [] ex = << "LSE" >> -> base_symbol \o << ".L" >>
       [] ex = << "ASX" >> -> base_symbol \o << ".AX" >>
       [] ex = << "TSX" >> -> base_symbol \o << ".TO" >>
       [] ex = << "FRA" >> -> base_symbol \o << ".F" >>
       [] ex = << "PAR" >> -> base_symbol \o << ".PA" >>
       [] ex = << "AMS" >> -> base_symbol \o << ".AS" >>
       [] ex = << "STO" >> -> base_symbol \o << ".ST" >>
       [] ex \in { << "KRX" >>, << "KSE" >> } -> base_symbol \o << ".KS" >>
       [] ex = << "KOSDAQ" >> -> base_symbol \o << ".KQ" >>
       [] OTHER -> base_symbol

\* The pieces of the tickers.
TickerPieces == { ":", "NASDAQ", "TWSE", "HKEX", "LSE", "AAPL", "2330" }
Tickers == UNION { [1..n -> TickerPieces] : n \in 0..MaxTokens }

SymbolInit ==
  /\ SyncOff
  /\ input \in Tickers
  /\ output = [exchange |-> None, base |-> << >>, yahoo_symbol |-> << >>]
  /\ stage = "symbol_start"

\* let (exchange, base_symbol) = get_exchange_and_symbol(canonical_symbol)
ResolveExchange ==
  /\ stage = "symbol_start"
  /\ output' = [output EXCEPT !.exchange = get_exchange_and_symbol(input).exchange,
                              !.base = get_exchange_and_symbol(input).base]
  /\ stage' = "symbol_split"
  /\ UNCHANGED << syncVars, input >>

\* let yahoo_symbol = yahoo_symbol_for(exchange.as_deref(), &base_symbol)
ResolveProvider ==
  /\ stage = "symbol_split"
  /\ output' = [output EXCEPT !.yahoo_symbol = yahoo_symbol_for(output.exchange, output.base)]
  /\ stage' = "symbol_resolved"
  /\ UNCHANGED << syncVars, input >>

SymbolNext == ResolveExchange \/ ResolveProvider

\* The resolution of a ticker into exchange, base and provider symbol.
SpecSymbol == SymbolInit /\ [][SymbolNext]_vars

\* ------------------------------------------------------ overlapping passes
\* Two calls of sync_full_history at the same time: the command
\* sync_history_once and the thread of start_history_worker. Nothing in the
\* program keeps one from starting while the other runs. Each pass is taken
\* in three blocks (its start and loads, one round of its loop, its flush),
\* with no write of a file or of the log failing. Each pass keeps, beside
\* its price_map and the symbols it has still to do, what it did: the dates
\* it merged, the symbols it sent a request for and those it fetched, and
\* the length of the log when it started and when it completed.
Passes == { "once", "worker" }

OverlapTxnLists ==
  { << Txn(SymA, DateText(1)) >>,
    << Txn(SymA, DateText(1)), Txn(SymB, DateText(MaxDate)) >> }

\* What the provider answers while two passes overlap: the first day, today,
\* both, or a failed request.
OverlapPayloads ==
  { WithBars(<< 1 >>), WithBars(<< Today >>), WithBars(<< 1, Today >>),
    [NoBars EXCEPT !.kind = "send_error"] }

\* The files save_price_records writes for the map, onto the files there are.
RECURSIVE SaveAll(_, _, _)
SaveAll(files, records_map, symbols) ==
  IF symbols = {} THEN files
  ELSE LET symbol == CHOOSE y \in symbols : TRUE
       IN SaveAll(WriteFile(files, SafeSymbol(symbol), SavedContent(records_map[symbol])),
                  records_map, symbols \ { symbol })

OverlapInit ==
  /\ transactions \in OverlapTxnLists
  /\ priceFiles \in SyncStores
  /\ RunsIdle
  /\ input = << >>
  /\ output = [p \in Passes |->
                 [pc |-> "idle", price_map |-> << >>, todo |-> {}, merged |-> {},
                  requested |-> {}, fetched |-> {}, from |-> 0, to |-> 0]]
  /\ stage = "overlap"

\* "History worker started", the transactions, earliest_by_symbol and the
\* price store read into price_map.
OverlapBegin(p) ==
  /\ output[p].pc = "idle"
  /\ Logged(Line("started", << >>, 0))
  /\ output' = [output EXCEPT ![p] =
                  [pc |-> "loop", price_map |-> load_price_records(priceFiles),
                   todo |-> DOMAIN EarliestBySymbol(transactions), merged |-> {},
                   requested |-> {}, fetched |-> {}, from |-> Len(log), to |-> 0]]
  /\ UNCHANGED << input, stage, transactions, priceFiles, dividendFiles, metaFiles,
                  pc, passes, earliest_by_symbol, price_map, todo, cur, outcome, toSave,
                  result, attempted, call, writes, faults, logStart >>

\* One round of the loop: "Syncing history for", ensure_history_for_symbol
\* and the line of its outcome.
OverlapSync(p) ==
  /\ output[p].pc = "loop"
  /\ \E symbol \in output[p].todo, payload \in OverlapPayloads :
       LET env == [payload |-> payload, fate |-> [meta |-> "ok", div |-> "ok"]]
           earliest == EarliestBySymbol(transactions)[symbol]
           out == ensure_history_for_symbol(output[p].price_map, metaFiles, dividendFiles,
                                            symbol, earliest, env)
           dates == IF out.requested /\ out.fetch.ok
                    THEN { << symbol, out.fetch.records[i].date >> :
                             i \in DOMAIN out.fetch.records }
                    ELSE {}
       IN /\ output' = [output EXCEPT ![p].price_map = out.records_map,
                                      ![p].todo = @ \ { symbol },
                                      ![p].merged = @ \cup dates,
                                      ![p].requested =
                                         IF out.requested THEN @ \cup { symbol } ELSE @,
                                      ![p].fetched =
                                         IF out.requested /\ out.result.ok
                                           THEN @ \cup { symbol } ELSE @]
          /\ metaFiles' = out.metas
          /\ dividendFiles' = out.divs
          /\ log' = log \o << Line("syncing", symbol, earliest),
                              OutcomeLine(symbol, out.result) >>
  /\ UNCHANGED << input, stage, transactions, priceFiles,
                  pc, passes, earliest_by_symbol, price_map, todo, cur, outcome, toSave,
                  result, attempted, call, writes, faults, logStart >>

\* The series are sorted, "Saving N price rows", save_price_records and
\* "History worker completed".
OverlapFlush(p) ==
  /\ output[p].pc = "loop"
  /\ output[p].todo = {}
  /\ priceFiles' = SaveAll(priceFiles, output[p].price_map, DOMAIN output[p].price_map)
  /\ log' = log \o << Line("saving", << >>, TotalRows(output[p].price_map)),
                      Line("completed", << >>, 0) >>
  /\ output' = [output EXCEPT ![p].pc = "done", ![p].price_map = SortAll(@),
                               ![p].to = Len(log')]
  /\ UNCHANGED << input, stage, transactions, dividendFiles, metaFiles,
                  pc, passes, earliest_by_symbol, price_map, todo, cur, outcome, toSave,
                  result, attempted, call, writes, faults, logStart >>

OverlapNext == \E p \in Passes : OverlapBegin(p) \/ OverlapSync(p) \/ OverlapFlush(p)

\* Two sync passes over one store, in any interleaving of their blocks.
SpecOverlap == OverlapInit /\ [][OverlapNext]_vars

\* ----------------------------------------------------------- file naming
\* The symbols of a price map: pieces of a name, colons and underscores.
NamePieces == { "T", ":", "_" }
NamedSymbols == UNION { [1..n -> NamePieces] : n \in 1..MaxTokens }

\* A price map with one record of today for each of the symbols.
MapOf(symbols) ==
  [symbol \in symbols |-> FetchedRecords(WithBars(<< Today >>), symbol, 1, Today, 1)]

NamingInit ==
  /\ SyncOff
  /\ input \in { MapOf({ a, b }) : a, b \in NamedSymbols }
  /\ output = [toSave |-> DOMAIN input, listed |-> {}, loaded |-> << >>]
  /\ stage = "naming_save"

\* One round of the loop of save_price_records: persist_price_file_content
\* writes the series of a symbol to the file named after it.
NamingSave ==
  /\ stage = "naming_save"
  /\ \E symbol \in output.toSave :
       /\ priceFiles' = WriteFile(priceFiles, SafeSymbol(symbol), SavedContent(input[symbol]))
       /\ output' = [output EXCEPT !.toSave = @ \ { symbol }]
       /\ stage' = IF output.toSave = { symbol } THEN "naming_saved" ELSE stage
  /\ UNCHANGED << input, transactions, dividendFiles, metaFiles, log, pc, passes,
                  earliest_by_symbol, price_map, todo, cur, outcome, toSave, result,
                  attempted, call, writes, faults, logStart >>

\* list_price_files: the symbol of every file of the prices directory (the
\* list is sorted; here it is the set of its entries).
NamingList ==
  /\ stage = "naming_saved"
  /\ output' = [output EXCEPT !.listed = { SymbolOfFile(f) : f \in DOMAIN priceFiles }]
  /\ stage' = "naming_listed"
  /\ UNCHANGED << syncVars, input >>

\* load_price_records of the next pass, grouped by symbol.
NamingLoad ==
  /\ stage = "naming_listed"
  /\ output' = [output EXCEPT !.loaded = load_price_records(priceFiles)]
  /\ stage' = "naming_loaded"
  /\ UNCHANGED << syncVars, input >>

NamingNext == NamingSave \/ NamingList \/ NamingLoad

\* The price files of a map are written, listed and read back.
SpecNaming == NamingInit /\ [][NamingNext]_vars

\* ------------------------------------------------------ single download
\* Utc::now().date_naive() - ChronoDuration::days(15 * 365): a day before
\* every day of the model.
fifteen_years_ago == Today - MaxDate

DownloadInit ==
  /\ transactions = << >>
  /\ priceFiles \in SyncStores
  /\ RunsIdle
  /\ input \in { [symbol |-> symbol, before |-> priceFiles] : symbol \in Symbols }
  /\ output = [result |-> Ok, fetch |-> NoFetch]
  /\ stage = "download_start"

\* download_symbol_history(symbol): ensure_history_for_symbol on an empty
\* price_map, then the price file of the symbol is written from the map; the
\* write may fail.
Download ==
  /\ stage = "download_start"
  /\ \E payload \in SyncPayloads, fate \in WriteFates, written \in { "ok", "untouched", "partial" } :
       LET env == [payload |-> payload, fate |-> fate]
           out == ensure_history_for_symbol(<< >>, metaFiles, dividendFiles,
                                            input.symbol, fifteen_years_ago, env)
           has == input.symbol \in DOMAIN out.records_map
           csv_content == build_price_csv_content(out.records_map[input.symbol])
       IN /\ metaFiles' = out.metas
          /\ dividendFiles' = out.divs
          /\ (written # "ok") => (out.result.ok /\ has)
          /\ priceFiles' =
               IF ~out.result.ok \/ ~has THEN priceFiles
               ELSE IF written = "ok"
                 THEN WriteFile(priceFiles, SafeSymbol(input.symbol), csv_content)
               ELSE FailedWrite(priceFiles, SafeSymbol(input.symbol), csv_content, written)
          /\ output' = [result |-> IF out.result.ok /\ written # "ok"
                                     THEN Err("Failed to write price file for", input.symbol)
                                     ELSE out.result,
                        fetch |-> out.fetch]
  /\ stage' = "download_done"
  /\ UNCHANGED << input, transactions, log, pc, passes, earliest_by_symbol, price_map,
                  todo, cur, outcome, toSave, result, attempted, call, writes, faults,
                  logStart >>

DownloadNext == Download

\* The download of the history of one symbol.
SpecDownload == DownloadInit /\ [][DownloadNext]_vars

\* -------------------------------------------------------- readiness stats
\* The number of price records of the symbols.
RECURSIVE CountRecords(_, _)
CountRecords(price_records, syms) ==
  IF syms = {} THEN 0
  ELSE LET sym == CHOOSE x \in syms : TRUE
       IN Len(price_records[sym]) + CountRecords(price_records, syms \ { sym })

\* get_data_stats: the DataReadinessStats of the transactions and the price
\* store; the coverage is computed with include_completeness left to its
\* default.
get_data_stats(txns, files, today) ==
  LET price_records == load_price_records(files)
      unique_stocks == { txns[i].stock : i \in DOMAIN txns }
      dates == UNION { DatesOf(price_records[sym]) : sym \in DOMAIN price_records }
      coverage == get_data_coverage(txns, files, today, TRUE)
      count(status) == Cardinality({ sym \in DOMAIN coverage : coverage[sym].status = status })
  IN [total_stocks |-> Cardinality(unique_stocks),
      complete_data |-> count("complete"),
      partial_data |-> count("partial"),
      missing_data |-> count("missing"),
      total_price_records |-> CountRecords(price_records, DOMAIN price_records),
      oldest_date |-> IF dates = {} THEN None
                      ELSE Some(CHOOSE d \in dates : \A e \in dates : d <= e),
      newest_date |-> IF dates = {} THEN None
                      ELSE Some(CHOOSE d \in dates : \A e \in dates : e <= d)]

\* The transactions of a ledger: of either symbol or without a stock name,
\* dated today, the day before the window opens, or with a date that does
\* not parse.
StatsTxns(today) ==
  { Txn(stock, date) :
      stock \in { SymA, SymB, EmptyStock },
      date \in { DateText(today), DateText(today - Lookback - 1), BadDateText } }

\* The ledgers of up to MaxTxns transactions.
StatsLedgers(today) ==
  UNION { [1..n -> StatsTxns(today)] : n \in 0..MaxTxns }

\* The price file of the one symbol holds the first days of the window, none
\* or all of them.
StatsInputs(today) ==
  { [today |-> today, txns |-> txns, days |-> days] :
      txns \in StatsLedgers(today),
      days \in { 0..k : k \in (-1)..Lookback } }

\* Today is one of two days.
StatsInit ==
  /\ SyncOff
  /\ input \in UNION { StatsInputs(today) : today \in { Lookback + 1, Lookback + 2 } }
  /\ output = << >>
  /\ stage = "stats_start"

\* The get_data_stats command.
GetDataStats ==
  /\ stage = "stats_start"
  /\ output' = get_data_stats(input.txns,
                              CoverageStore({ input.today - Lookback + d : d \in input.days }),
                              input.today)
  /\ stage' = "stats_done"
  /\ UNCHANGED << syncVars, input >>

StatsNext == GetDataStats

\* The readiness stats are computed for a ledger, a price store and a day.
SpecStats == StatsInit /\ [][StatsNext]_vars

\* ------------------------------------------------------------- claims
SeriesOf(records_map, symbol) ==
  IF symbol \in DOMAIN records_map THEN records_map[symbol] ELSE << >>

\* The last record of the date in the fetched batch.
LastOfDate(s, d) ==
  s[CHOOSE i \in DOMAIN s : s[i].date = d /\ \A j \in DOMAIN s : s[j].date = d => j <= i]

\* ensure_history_for_symbol has just returned in run r and its merge loop ran.
Merged(r) ==
  /\ pc[r] = "outcome"
  /\ call[r].requested
  /\ call[r].fetch.ok
  /\ call[r].fetch.records # << >>
  /\ outcome[r].msg # "Failed to write meta file for"

\* C1: after fetched records are merged into a stored series, the series
\* holds no two records of one date, the record of every fetched date is the
\* last one fetched for it, and the series has as many records as there are
\* distinct dates in the old series and the batch together.
C1_MergeByDate ==
  \A r \in Runs :
    Merged(r) =>
      LET old == SeriesOf(call[r].before, call[r].symbol)
          new == SeriesOf(price_map[r], call[r].symbol)
          got == call[r].fetch.records
      IN /\ \A i, j \in DOMAIN new : new[i].date = new[j].date => i = j
         /\ \A d \in DatesOf(got) : \E i \in DOMAIN new : new[i] = LastOfDate(got, d)
         /\ Len(new) = Cardinality(DatesOf(old) \cup DatesOf(got))

\* C1 witness: a batch with two records of one date, a date the stored
\* series already holds, has been merged.
C1_Witness ==
  \E r \in Runs :
    /\ Merged(r)
    /\ LET old == SeriesOf(call[r].before, call[r].symbol)
           got == call[r].fetch.records
       IN /\ Len(got) > Cardinality(DatesOf(got))
          /\ DatesOf(old) \cap DatesOf(got) # {}

\* The symbols of run r whose fetch failed.
FetchFailed(r) ==
  { y \in DOMAIN attempted[r] : attempted[r][y].requested /\ ~attempted[r][y].fetched }

\* The lines the log gained since run r started.
RunLog(r) == SubSeq(log, logStart[r] + 1, Len(log))

\* C2: a pass in which the fetch of some symbol failed, and in which no write
\* of the log or of a price file failed, returns Ok; it attempted every
\* symbol, logged the failure of each failed symbol, reached the flush and
\* wrote every series.
C2_FetchFailureIsolated ==
  \A r \in Runs :
    (pc[r] = "done" /\ faults[r] = 0 /\ FetchFailed(r) # {}) =>
      /\ result[r].ok
      /\ DOMAIN attempted[r] = DOMAIN earliest_by_symbol[r]
      /\ \A y \in FetchFailed(r) :
           \E i \in DOMAIN RunLog(r) :
             RunLog(r)[i].sym = y /\ RunLog(r)[i].kind \in { "failed", "skipped" }
      /\ \E i \in DOMAIN RunLog(r) : RunLog(r)[i].kind = "saving"
      /\ { writes[r][i].symbol : i \in DOMAIN writes[r] } = DOMAIN price_map[r]
      /\ RunLog(r)[Len(RunLog(r))].kind = "completed"

\* C2 witness: a pass over two symbols has returned; the fetch of one failed,
\* the other was fetched and its series written.
C2_Witness ==
  \E r \in Runs :
    /\ pc[r] = "done" /\ faults[r] = 0
    /\ \E y, z \in DOMAIN attempted[r] :
         /\ y \in FetchFailed(r)
         /\ attempted[r][z].requested /\ attempted[r][z].fetched
         /\ z \notin DOMAIN call[r].before
         /\ \E i \in DOMAIN writes[r] : writes[r][i].symbol = z

\* The symbol has stored records and the earliest is on or before the date.
Covered(records_map, symbol, date) ==
  \E i \in DOMAIN SeriesOf(records_map, symbol) : SeriesOf(records_map, symbol)[i].date <= date

\* C3: when the stored series of a symbol reaches back to the earliest needed
\* date, ensure_history_for_symbol sends no request and leaves the series,
\* the dividend files and the metadata files as they were.
C3_GuardSkipsFetch ==
  \A r \in Runs :
    (/\ pc[r] = "outcome"
     /\ Covered(call[r].before, call[r].symbol, earliest_by_symbol[r][call[r].symbol])) =>
      /\ ~call[r].requested
      /\ outcome[r].ok
      /\ price_map[r] = call[r].before
      /\ dividendFiles = call[r].divs
      /\ metaFiles = call[r].metas

\* C3 witness: the call returned for a symbol whose earliest stored date is
\* the earliest needed date itself.
C3_Witness ==
  \E r \in Runs :
    /\ pc[r] = "outcome"
    /\ call[r].symbol \in DOMAIN call[r].before
    /\ call[r].before[call[r].symbol] # << >>
    /\ MinDate(call[r].before[call[r].symbol]) = earliest_by_symbol[r][call[r].symbol]

\* The dates of the rows of a price file, in file order.
RowDates(rows) == [i \in DOMAIN rows |-> [date |-> Get(ParseDate(Cell(rows[i], 0)))]]

\* What holds of the price-file writes of run r in every state.
FlushInv(r) ==
  /\ writes[r] # << >> =>
       /\ pc[r] \in { "save", "done" }
       /\ todo[r] = {}
       /\ DOMAIN attempted[r] = DOMAIN earliest_by_symbol[r]
  /\ \A i, j \in DOMAIN writes[r] : writes[r][i].symbol = writes[r][j].symbol => i = j
  /\ \A i \in DOMAIN writes[r] :
       /\ IsSortedDesc(RowDates(writes[r][i].rows))
       /\ DatesOf(RowDates(writes[r][i].rows)) = DatesOf(price_map[r][writes[r][i].symbol])
  /\ (pc[r] = "done" /\ result[r].ok) =>
       { writes[r][i].symbol : i \in DOMAIN writes[r] } = DOMAIN price_map[r]

\* A step that changes a price file is a step of a run in its save phase,
\* after every symbol was attempted.
FlushStep ==
  priceFiles' # priceFiles =>
    \E r \in Runs :
      /\ pc[r] = "save"
      /\ todo[r] = {}
      /\ DOMAIN attempted[r] = DOMAIN earliest_by_symbol[r]

\* C4: no price file is written before every symbol of the pass has been
\* attempted; once the pass returns Ok every series of the map has been
\* written exactly once, newest date first.
C4_FlushAfterAllSymbols == [](\A r \in Runs : FlushInv(r)) /\ [][FlushStep]_vars

\* C4 witness: a pass over two symbols has returned Ok after writing two
\* series, one of them with records of two dates.
C4_Witness ==
  \E r \in Runs :
    /\ pc[r] = "done" /\ result[r].ok
    /\ Len(writes[r]) = 2
    /\ Cardinality(DOMAIN attempted[r]) = 2
    /\ \E i \in DOMAIN writes[r] : Len(writes[r][i].rows) >= 2

\* The product of numerator / denominator over the events at the indices I.
RECURSIVE RatioProduct(_, _)
RatioProduct(events, I) ==
  IF I = {} THEN One
  ELSE LET i == CHOOSE k \in I : TRUE
       IN RMul(Rat(events[i][2], events[i][3]), RatioProduct(events, I \ { i }))

\* The product of the ratios of the events dated strictly after the date.
ProductAfter(events, date) ==
  RatioProduct(events, { i \in DOMAIN events : events[i][1] > date })

\* The cell of a price-file row as a number, if it holds one.
NumCell(row, k) == IF Cell(row, k).t = "num" THEN Some(Cell(row, k).v) ELSE None

\* C5: load_price_history_for_symbol returns one record for each row of the
\* price file, with close, open, high and low multiplied by the product of the
\* ratios of the split events dated strictly after the record's date, and the
\* other fields as in the file: with no split event every field is as in the
\* file, and with a single 2:1 split dated D the close is doubled before D
\* and unchanged on or after D.
C5_SplitReconciler ==
  stage = "split_loaded" =>
    LET rows == output.prices[SafeSymbol(SymA)]
        recs == output.loaded.records
    IN /\ output.loaded.ok
       /\ Len(recs) = Len(rows)
       /\ IsSortedAsc(recs)
       /\ \A i \in DOMAIN rows :
            \E j \in DOMAIN recs :
              LET f == ProductAfter(input.events, recs[j].date)
              IN /\ recs[j].date = Get(ParseDate(Cell(rows[i], 0)))
                 /\ recs[j].close = RMul(Get(NumCell(rows[i], 1)), f)
                 /\ recs[j].open = ScaleOpt(NumCell(rows[i], 2), f)
                 /\ recs[j].high = ScaleOpt(NumCell(rows[i], 3), f)
                 /\ recs[j].low = ScaleOpt(NumCell(rows[i], 4), f)
                 /\ recs[j].volume = NumCell(rows[i], 5)
                 /\ (input.events = << >> => f = One)
                 /\ (input.events = << << Today, 2, 1 >> >> =>
                       f = IF recs[j].date < Today THEN Num(2) ELSE One)

\* C5 witness: a series with records before and on the date of its single
\* 2:1 split has been read.
C5_Witness ==
  /\ stage = "split_loaded"
  /\ input.events = << << Today, 2, 1 >> >>
  /\ \E i, j \in DOMAIN output.loaded.records :
       /\ output.loaded.records[i].date < Today
       /\ output.loaded.records[j].date = Today

\* C6: every record fetch_yahoo_chunk returns has split_unadjusted_close equal
\* to its close times the product of numerator / denominator of the payload's
\* split events dated strictly after the record's date.
C6_SplitUnadjustedClose ==
  stage # "split_start" =>
    /\ Len(output.fetched) = MaxDate
    /\ \A i \in DOMAIN output.fetched :
         LET rec == output.fetched[i]
         IN /\ rec.close = Num(i + 2)
            /\ rec.split_unadjusted_close =
                 Some(RMul(rec.close, ProductAfter(input.events, rec.date)))

\* C6 witness: a record was fetched with one split on its own date and one
\* after it, neither of ratio 1.
C6_Witness ==
  /\ stage = "split_fetched"
  /\ \E i \in DOMAIN output.fetched, j, k \in DOMAIN input.events :
       /\ input.events[j][1] = output.fetched[i].date
       /\ input.events[k][1] > output.fetched[i].date
       /\ input.events[j][2] # input.events[j][3]
       /\ input.events[k][2] # input.events[k][3]

\* C7: for one close series and one list of split events (numerator and
\* denominator at least 1), the split_unadjusted_close of the fetcher is the
\* close the Split Reconciler returns for the same date.
C7_FetcherMatchesReconciler ==
  stage = "split_loaded" =>
    /\ DatesOf(output.fetched) = DatesOf(output.loaded.records)
    /\ \A i \in DOMAIN output.fetched, j \in DOMAIN output.loaded.records :
         output.fetched[i].date = output.loaded.records[j].date =>
           output.fetched[i].split_unadjusted_close = Some(output.loaded.records[j].close)

\* C7 witness: the series was fetched and read back with two split events
\* after its first date, one of them with a numerator below its denominator.
C7_Witness ==
  /\ stage = "split_loaded"
  /\ Len(input.events) = 2
  /\ \A k \in DOMAIN input.events : input.events[k][1] > 1
  /\ \E k \in DOMAIN input.events : input.events[k][2] < input.events[k][3]
  /\ \E i \in DOMAIN output.fetched : output.fetched[i].date = 1

\* What a transaction does to the share count, by its type as the timeline's
\* contract names them.
Replayed(shares, txn) ==
  IF txn.txn_type \in { TyBuy, TyPurchase } THEN RAdd(shares, txn.quantity)
  ELSE IF txn.txn_type \in { TySell, TySale }
    THEN (IF RLess(shares, txn.quantity) THEN Zero ELSE RSub(shares, txn.quantity))
  ELSE IF \E i \in 0..(Len(txn.txn_type) - 5) : SubSeq(txn.txn_type, i + 1, i + 5) = TySplit
    THEN RMul(shares, IF RLeq(txn.split_ratio, Zero) THEN One ELSE txn.split_ratio)
  ELSE shares

\* The share count after the first n of the transactions, in order.
RECURSIVE SharesAfter(_, _)
SharesAfter(txns, n) ==
  IF n = 0 THEN Zero ELSE Replayed(SharesAfter(txns, n - 1), txns[n])

\* How many of the transactions are dated on or before the date.
DueBy(txns, date) == Cardinality({ i \in DOMAIN txns : txns[i].date <= date })

\* C8: build_position_timeline returns one point for each price, in the order
\* of the prices, with the price's date and close and the share count after
\* every transaction dated on or before the price's date, applied in order;
\* buy 10 on the first day and sell 4 on the second, with prices 100 and 120,
\* give (day 1, 100, 10) and (day 2, 120, 6).
C8_PositionTimeline ==
  stage = "timeline_done" =>
    /\ Len(output.results) = Len(input.prices)
    /\ \A i \in DOMAIN output.results :
         /\ output.results[i].date = DateText(input.prices[i].date)
         /\ output.results[i].close = input.prices[i].close
         /\ output.results[i].shares =
              SharesAfter(output.processed, DueBy(output.processed, input.prices[i].date))
    /\ (/\ input.kind = "raw"
        /\ input.txns = << ReplayTxn(1, << "B", "u", "y" >>, TextNum(Num(10)), TextEmpty),
                           ReplayTxn(2, TySell, TextNum(Num(4)), TextEmpty) >>
        /\ Len(input.prices) >= 2) =>
         /\ output.results[1] = [date |-> DateText(1), close |-> Num(100), shares |-> Num(10)]
         /\ output.results[2] = [date |-> DateText(2), close |-> Num(120), shares |-> Num(6)]

\* C8 witness: the timeline of buy 10 on the first day and sell 4 on the
\* second has been built against prices of both days.
C8_Witness ==
  /\ stage = "timeline_done"
  /\ input.kind = "raw"
  /\ input.txns = << ReplayTxn(1, << "B", "u", "y" >>, TextNum(Num(10)), TextEmpty),
                     ReplayTxn(2, TySell, TextNum(Num(4)), TextEmpty) >>
  /\ Len(output.results) >= 2

\* C9: no point of a timeline built from the transactions that
\* load_symbol_transactions returns has a negative share count.
C9_SharesNeverNegative ==
  input.kind = "raw" =>
    \A i \in DOMAIN output.results : RLeq(Zero, output.results[i].shares)

\* The days from start to today that are neither Saturday nor Sunday.
Weekdays(start, today) == { d \in start..today : d % 7 < 5 }

\* C10: with completeness included, the coverage record of a symbol with
\* stored prices has total_days equal to the number of weekdays of the window,
\* missing_days equal to the number of those without a stored price,
\* coverage_percent = (total_days - missing_days) / total_days * 100, or 0
\* when total_days is 0, and the status that goes with the percentage.
C10_CoverageRecord ==
  (/\ stage = "coverage_done"
   /\ input.include_completeness
   /\ SymB \in DOMAIN output
   /\ input.days # {}) =>
    LET start == input.today - Lookback
        week == Weekdays(start, input.today)
        stored == { start + d : d \in input.days }
        total == Cardinality(week)
        missing == Cardinality(week \ stored)
        percent == IF total = 0 THEN Zero ELSE RMul(Rat(total - missing, total), Num(100))
        rec == output[SymB]
    IN /\ rec.total_days = total
       /\ rec.missing_days = missing
       /\ rec.coverage_percent = percent
       /\ rec.status = (IF RLeq(Num(95), percent) THEN "complete"
                        ELSE IF RLeq(Num(50), percent) THEN "partial"
                        ELSE "missing")

\* C11: with completeness included, a stored price for a weekday of the
\* window that had none raises the symbol's coverage_percent, or leaves it at
\* 100; a stored price for a Saturday, a Sunday or a day outside the window
\* leaves coverage_percent as it was.
C11_CoverageMonotonic ==
  (/\ stage = "coverage_again"
   /\ input.include_completeness
   /\ SymB \in DOMAIN output.before) =>
    LET p0 == output.before[SymB].coverage_percent
        p1 == output.after[SymB].coverage_percent
    IN IF output.added \in Weekdays(input.today - Lookback, input.today)
       THEN RLess(p0, p1) \/ (p0 = Num(100) /\ p1 = Num(100))
       ELSE p1 = p0

\* The symbols every transaction of which has a date that parses.
WellDated(txns) ==
  { txns[i].stock : i \in DOMAIN txns } \ ({ EmptyStock } \cup { txns[i].stock : i \in BadDates(txns) })

\* C12: a pass over transactions one of which has a malformed date, with no
\* write of the log or of a price file failing, still attempts every symbol
\* whose dates are well formed and reaches the flush of the price store.
C12_BadDateAbortsOneSymbol ==
  \A r \in Runs :
    (pc[r] = "done" /\ faults[r] = 0 /\ BadDates(transactions) # {}) =>
      /\ WellDated(transactions) \subseteq DOMAIN attempted[r]
      /\ \E i \in DOMAIN RunLog(r) : RunLog(r)[i].kind = "saving"

\* C13: fetch_yahoo_chunk returns an error and no price record when the body
\* is empty, when the HTTP status is not a success status, and when the JSON
\* lacks result, indicators or quote.
C13_FetchErrors ==
  (/\ stage = "fetch_done"
   /\ \/ input.payload.kind \in { "empty_body", "no_result", "no_indicators", "no_quote" }
      \/ input.payload.status \notin 200..299) =>
    ~output.ok /\ output.records = << >>

\* The indexes of the provider's timestamps whose day lies in [start, end]
\* and whose close at the index is there and not null.
InRangeWithClose ==
  { i \in DOMAIN input.payload.timestamp :
      /\ input.start <= DateOfTs(input.payload.timestamp[i])
      /\ DateOfTs(input.payload.timestamp[i]) <= input.end
      /\ i \in DOMAIN input.payload.close
      /\ input.payload.close[i] # None }

\* The value of the vector at the index, None when short or null there.
PresentAt(vector, i) == IF i \in DOMAIN vector THEN vector[i] ELSE None

\* C17: a dividend list produced for a symbol has at most one entry per
\* ex-date, is ordered newest first and holds only ex-dates of the requested
\* range; here the list fetch_yahoo_chunk returns.
C17_DividendsOnePerDate ==
  (stage = "fetch_done" /\ output.ok) =>
    /\ \A i, j \in DOMAIN output.dividends :
         output.dividends[i].date = output.dividends[j].date => i = j
    /\ \A i, j \in DOMAIN output.dividends :
         i < j => output.dividends[i].date >= output.dividends[j].date
    /\ \A i \in DOMAIN output.dividends :
         input.start <= output.dividends[i].date /\ output.dividends[i].date <= input.end

\* C19: on success fetch_yahoo_chunk returns one record, in the provider's
\* order, for exactly the timestamps whose day lies in [start, end] and whose
\* close at the index is not null; open, high, low, volume and adjusted close
\* are those of the index and absent when the provider has none there.
C19_RecordsOfRange ==
  (stage = "fetch_done" /\ output.ok) =>
    /\ Len(output.records) = Cardinality(InRangeWithClose)
    /\ \A i \in InRangeWithClose :
         LET record == output.records[Cardinality({ k \in InRangeWithClose : k <= i })]
         IN /\ record.date = DateOfTs(input.payload.timestamp[i])
            /\ Some(record.close) = input.payload.close[i]
            /\ record.open = PresentAt(input.payload.open, i)
            /\ record.high = PresentAt(input.payload.high, i)
            /\ record.low = PresentAt(input.payload.low, i)
            /\ record.volume = PresentAt(input.payload.volume, i)
            /\ record.adjusted_close = PresentAt(input.payload.adjclose, i)

\* A priced bar before the range is dropped and the bar of the start date is
\* kept, with its low and volume, without the open and high the provider
\* does not have at its index.
C19_Witness ==
  /\ stage = "fetch_done" /\ output.ok
  /\ Len(input.payload.timestamp) = 2
  /\ DateOfTs(input.payload.timestamp[1]) < input.start
  /\ input.payload.close[1] # None
  /\ Len(output.records) = 1
  /\ output.records[1].date = input.start
  /\ output.records[1].open = None /\ output.records[1].high = None
  /\ output.records[1].low # None /\ output.records[1].volume # None

\* A cell that holds no number or a number that is not positive.
Malformed(cell) == ParseF64(cell) = None \/ ~RLess(Zero, Get(ParseF64(cell)))

\* The fractional files whose rows all have a date, a malformed numerator or
\* denominator cell, and some row.
MalformedFiles ==
  { stem \in DOMAIN input.files :
      /\ HasFractionalHeader(input.files[stem].header)
      /\ input.files[stem].rows # << >>
      /\ \A i \in DOMAIN input.files[stem].rows :
           LET row == input.files[stem].rows[i]
           IN ParseDate(row[1]) # None /\ (Malformed(row[2]) \/ Malformed(row[3])) }

\* C14: a split row with a non-positive or unparseable numerator or
\* denominator is read as ratio 1 by load_split_events and by
\* get_split_history, whatever its other component is, and is not rejected.
C14_MalformedRowIsNoOp ==
  stage = "splits_read" =>
    \A stem \in MalformedFiles :
      LET events == output.events[SymbolOfFile(stem)]
          shown == SelectSeq(output.history, LAMBDA h : h.ticker = SymbolOfFile(stem))
      IN /\ Len(events) = Len(input.files[stem].rows)
         /\ Len(shown) = Len(input.files[stem].rows)
         /\ \A i \in DOMAIN events : events[i].ratio = One
         /\ \A i \in DOMAIN shown : shown[i].ratio_factor = One

\* The store holds the same events twice: row by row, the legacy file of
\* T:B has the date, the ratio "n:d" and the prices of the row of the
\* fractional file of A with whole n, d >= 1.
SameEventsTwice ==
  /\ DOMAIN input.files = { SafeSymbol(SymA), SafeSymbol(SymB) }
  /\ LET fractional == input.files[SafeSymbol(SymA)]
         legacy == input.files[SafeSymbol(SymB)]
     IN /\ HasFractionalHeader(fractional.header)
        /\ ~HasFractionalHeader(legacy.header)
        /\ Len(fractional.rows) = Len(legacy.rows)
        /\ \A i \in DOMAIN fractional.rows :
             /\ ParseI32(fractional.rows[i][2]) # None
             /\ ParseI32(fractional.rows[i][3]) # None
             /\ Get(ParseI32(fractional.rows[i][2])) >= 1
             /\ Get(ParseI32(fractional.rows[i][3])) >= 1
             /\ legacy.rows[i] =
                  << fractional.rows[i][1],
                     TextColon(Get(ParseI32(fractional.rows[i][2])),
                               Get(ParseI32(fractional.rows[i][3]))),
                     fractional.rows[i][4], fractional.rows[i][5] >>

\* What get_split_history shows of a symbol, without the symbol.
ShownOf(symbol) ==
  LET shown == SelectSeq(output.history, LAMBDA h : h.ticker = symbol)
  IN [i \in DOMAIN shown |->
        << shown[i].date, shown[i].numerator, shown[i].denominator, shown[i].ratio_factor >>]

\* C15: the events of a legacy free-text ratio file are read as the same
\* date, numerator, denominator and ratio factor as the same events of a
\* fractional file, by get_split_history and by load_split_events.
C15_SchemasReadAlike ==
  (stage = "splits_read" /\ SameEventsTwice) =>
    /\ ShownOf(SymA) = ShownOf(SymB)
    /\ output.events[SymA] = output.events[SymB]

\* The free-text ratio of the only row of a legacy file, when it is not in
\* the numerator:denominator form.
FreeText ==
  IF /\ stage \in { "splits_history", "splits_read" }
     /\ DOMAIN input.files = { SafeSymbol(SymB) }
     /\ ~HasFractionalHeader(input.files[SafeSymbol(SymB)].header)
     /\ Len(input.files[SafeSymbol(SymB)].rows) = 1
     /\ input.files[SafeSymbol(SymB)].rows[1][2].t # "colon"
  THEN Some(input.files[SafeSymbol(SymB)].rows[1][2])
  ELSE None

\* C20: parse_ratio_components maps a ratio text that is not in the
\* numerator:denominator form so: a value > 1 to (round(value), 1), a value
\* in (0, 1) to (1, round(1 / value)), anything else (empty, no number, zero,
\* negative) to (1, 1); get_split_history shows the pair.
C20_RatioHeuristic ==
  FreeText # None =>
    LET text == Get(FreeText)
        shown == << output.history[1].numerator, output.history[1].denominator >>
        \* twice the distance between the whole number k and the value x
        off(k, x) == Abs(2 * (k * x.d - x.n))
    IN /\ Len(output.history) = 1
       /\ IF text.t = "num" /\ RLess(One, text.v)
            THEN shown[2] = 1 /\ off(shown[1], text.v) <= text.v.d
                 /\ off(shown[1] + 1, text.v) > text.v.d
          ELSE IF text.t = "num" /\ RLess(Zero, text.v) /\ RLess(text.v, One)
            THEN shown[1] = 1 /\ off(shown[2], RDiv(One, text.v)) <= text.v.n
                 /\ off(shown[2] + 1, RDiv(One, text.v)) > text.v.n
          ELSE shown = << 1, 1 >>
       /\ (text = TextNum(Num(2)) => shown = << 2, 1 >>)
       /\ (text = TextNum(Rat(1, 2)) => shown = << 1, 2 >>)
       /\ (text = TextEmpty => shown = << 1, 1 >>)

\* The ratio "0.4" is shown as 1:3, 1 / 0.4 = 2.5 rounded away from zero.
C20_Witness ==
  /\ FreeText = Some(TextNum(Rat(2, 5)))
  /\ output.history[1].numerator = 1 /\ output.history[1].denominator = 3

\* The flush of run r ends with a failed write in this step.
FlushFailed(r) == pc[r] = "save" /\ pc'[r] = "done" /\ ~result'[r].ok

\* C16: when a write of the flush fails the pass returns an error, and the
\* step leaves every price file as it was (its series from before the pass,
\* or its new series if already flushed) or with its complete new series.
C16_FailedFlushKeepsFiles ==
  [][\A r \in Runs :
       FlushFailed(r) =>
         \A stem \in DOMAIN priceFiles' :
            \/ stem \in DOMAIN priceFiles /\ priceFiles'[stem] = priceFiles[stem]
            \/ \E symbol \in DOMAIN price_map[r] :
                 /\ stem = SafeSymbol(symbol)
                 /\ priceFiles'[stem] = SavedContent(price_map[r][symbol])]_vars

\* The worker has appended a terminal line to the log.
TerminalLine(r) ==
  \E i \in DOMAIN RunLog(r) :
     RunLog(r)[i].kind \in { "completed", "no_transactions", "worker_failed" }

\* A write of the log by the worker has failed.
LogWriteFailed(r) ==
  \/ pc[r] = "done" /\ result[r] = Err("Failed to write log", << >>)
  \/ stage = "worker_exited_unlogged"

\* C18: start_history_worker can return as soon as the worker is spawned,
\* whatever the worker is doing, and every spawned worker eventually appends
\* a terminal line to the log, unless a write of the log fails.
C18_WorkerTerminates ==
  /\ [](output.caller = "spawned" => ENABLED ReturnWorker)
  /\ \A r \in Runs : (stage = "worker_spawned") ~> (TerminalLine(r) \/ LogWriteFailed(r))

\* The caller has its Ok, the pass failed on a transaction date, and the
\* worker has logged "History worker failed".
C18_Witness ==
  /\ output = [caller |-> "returned", res |-> Ok]
  /\ stage = "worker_exited"
  /\ \E r \in Runs :
       /\ ~result[r].ok
       /\ log # << >> /\ log[Len(log)].kind = "worker_failed"

\* The ways to cut the ticker at its first colon into an exchange code the
\* resolver knows and a base: << code, base >>.
CutsAtColon ==
  LET i == FirstColon(input)
      before == SubSeq(input, 1, i - 1)
      after == SubSeq(input, i + 1, Len(input))
  IN IF i = 0 THEN {}
     ELSE { cut \in { << before, after >>, << after, before >> } : cut[1] \in KnownExchanges }

\* C21: get_exchange_and_symbol returns (exchange, base) when the part
\* before or after the colon is a known exchange code and (none, the whole
\* ticker) when neither is; with yahoo_symbol_for, NASDAQ:AAPL resolves to
\* NASDAQ, AAPL, AAPL and 2330:TWSE to TWSE, 2330, 2330.TW.
C21_ExchangeAndSymbol ==
  stage = "symbol_resolved" =>
    /\ IF CutsAtColon = {}
         THEN output.exchange = None /\ output.base = input
         ELSE output.exchange # None
              /\ << Get(output.exchange), output.base >> \in CutsAtColon
    /\ input = << "NASDAQ", ":", "AAPL" >> =>
         output = [exchange |-> Some(<< "NASDAQ" >>), base |-> << "AAPL" >>,
                   yahoo_symbol |-> << "AAPL" >>]
    /\ input = << "2330", ":", "TWSE" >> =>
         output = [exchange |-> Some(<< "TWSE" >>), base |-> << "2330" >>,
                   yahoo_symbol |-> << "2330", ".TW" >>]

\* 2330:TWSE is resolved, the exchange behind the colon.
C21_Witness ==
  /\ stage = "symbol_resolved"
  /\ input = << "2330", ":", "TWSE" >>
  /\ output.yahoo_symbol = << "2330", ".TW" >>

\* Run r sent no request for the symbol.
NotFetched(r, symbol) ==
  symbol \notin DOMAIN attempted[r] \/ ~attempted[r][symbol].requested

\* C22: a sync pass loses nothing it did not fetch again: when the flush
\* writes the file of a symbol the run sent no request for, every row the
\* file held before (date, close, open, high, low, volume, adjusted_close,
\* split_unadjusted_close, source) is a row of the file after.
C22_PassKeepsStoredRecords ==
  [][\A r \in Runs :
       (pc[r] = "save" /\ pc'[r] = "save") =>
         \A stem \in DOMAIN priceFiles :
            NotFetched(r, SymbolOfFile(stem)) =>
              \A i \in DOMAIN priceFiles[stem] :
                 \E j \in DOMAIN priceFiles'[stem] :
                    priceFiles'[stem][j] = priceFiles[stem][i]]_vars

\* The dates of the rows of the symbol's price file.
StoredDates(symbol) ==
  IF SafeSymbol(symbol) \in DOMAIN priceFiles
    THEN DatesOf(RowDates(UsableRows(priceFiles[SafeSymbol(symbol)])))
    ELSE {}

Serialized ==
  \E i, j \in DOMAIN log : i < j /\ log[i].kind = "completed" /\ log[j].kind = "started"

C24_ErrorLeavesSeries ==
  \A r \in Runs :
    (pc[r] = "outcome" /\ ~outcome[r].ok) =>
      SeriesOf(price_map[r], call[r].symbol) = SeriesOf(call[r].before, call[r].symbol)

\* C25: two distinct symbols of the price map are never written to the same
\* price file, and the symbols list_price_files and load_price_records
\* recover from the file names are the symbols the files were written
\* under, each with the series written for it.
C25_NamingReversible ==
  stage = "naming_loaded" =>
    /\ Cardinality(DOMAIN priceFiles) = Cardinality(DOMAIN input)
    /\ output.listed = DOMAIN input
    /\ DOMAIN output.loaded = DOMAIN input
    /\ \A symbol \in DOMAIN input :
         DatesOf(SeriesOf(output.loaded, symbol)) = DatesOf(input[symbol])

\* The dates of the rows the symbol's file held before the download.
DatesBefore ==
  IF SafeSymbol(input.symbol) \in DOMAIN input.before
    THEN DatesOf(RowDates(UsableRows(input.before[SafeSymbol(input.symbol)])))
    ELSE {}

\* C26: download_symbol_history merges into the stored series: after a
\* successful call the price file of the symbol holds every date it held
\* before the call, and the fetched dates.
C26_DownloadMerges ==
  (stage = "download_done" /\ output.result.ok) =>
    /\ DatesBefore \subseteq StoredDates(input.symbol)
    /\ DatesOf(output.fetch.records) \subseteq StoredDates(input.symbol)

\* Pass q started after pass p had completed.
After(p, q) ==
  /\ output[p].pc = "done"
  /\ output[q].pc # "idle"
  /\ output[p].to <= output[q].from

\* Pass p merged, for the symbol, a record on or before the symbol's
\* earliest transaction date.
ReachedBack(p, symbol) ==
  \E m \in output[p].merged :
     m[1] = symbol /\ m[2] <= EarliestBySymbol(transactions)[symbol]

DividendDates(symbol) ==
  IF SafeSymbol(symbol) \in DOMAIN dividendFiles
    THEN DatesOf(dividendFiles[SafeSymbol(symbol)])
    ELSE {}

\* C28: after ensure_history_for_symbol returned Ok from a successful fetch,
\* the ex-date of every dividend the fetch returned is in the dividend file
\* of the symbol, whether or not the fetch returned a price record.
C28_DividendsStored ==
  \A r \in Runs :
    (pc[r] = "outcome" /\ call[r].requested /\ call[r].fetch.ok /\ outcome[r].ok) =>
      DatesOf(call[r].fetch.dividends) \subseteq DividendDates(call[r].symbol)

OutcomeKinds == { "finished", "skipped", "failed" }

\* The lines are a beginning of the protocol: "started"; for each symbol,
\* once, "syncing" and then its one outcome line; "saving"; "completed".
ProtocolPrefix(lines) ==
  /\ lines # << >> => lines[1].kind = "started"
  /\ \A i \in DOMAIN lines : i > 1 =>
       LET line == lines[i]
           prev == lines[i - 1]
       IN CASE line.kind = "syncing" ->
                 /\ prev.kind \in OutcomeKinds \cup { "started" }
                 /\ \A j \in 1..(i - 1) : lines[j].kind = "syncing" => lines[j].sym # line.sym
            [] line.kind \in OutcomeKinds -> prev.kind = "syncing" /\ prev.sym = line.sym
            [] line.kind = "saving" -> prev.kind \in OutcomeKinds \cup { "started" }
            [] line.kind = "completed" -> prev.kind = "saving" /\ i = Len(lines)
            [] OTHER -> FALSE

\* The log of a run that found no transactions.
NoTransactionsLog(lines) ==
  /\ Len(lines) = 2
  /\ lines[1].kind = "started"
  /\ lines[2].kind = "no_transactions"

\* Lines of the log are never changed or removed.
AppendOnly == Len(log) <= Len(log') /\ SubSeq(log', 1, Len(log)) = log

\* C29 as stated: the lines a run has appended since it began follow the
\* protocol, a run that returns Ok has logged all of it, "History worker
\* completed" last, with a "Syncing" line for every symbol; the log only
\* grows.
C29_LogProtocol ==
  /\ [](\A r \in Runs :
          /\ pc[r] # "idle" => ProtocolPrefix(RunLog(r))
          /\ (pc[r] = "done" /\ result[r].ok) =>
               /\ RunLog(r)[Len(RunLog(r))].kind = "completed"
               /\ \A symbol \in DOMAIN earliest_by_symbol[r] :
                    \E i \in DOMAIN RunLog(r) :
                       RunLog(r)[i].kind = "syncing" /\ RunLog(r)[i].sym = symbol)
  /\ [][AppendOnly]_vars

\* C29, with the run that has nothing to do: the lines a run has appended
\* are "started" and "No transactions found", or follow the protocol; a run that
\* returns Ok has logged one of the two in full, "History worker completed"
\* last after a "Syncing" line for every symbol; the log only grows.
C29_LogProtocolOrNothingToDo ==
  /\ [](\A r \in Runs :
          /\ pc[r] # "idle" => ProtocolPrefix(RunLog(r)) \/ NoTransactionsLog(RunLog(r))
          /\ (pc[r] = "done" /\ result[r].ok) =>
               \/ NoTransactionsLog(RunLog(r))
               \/ /\ RunLog(r)[Len(RunLog(r))].kind = "completed"
                  /\ \A symbol \in DOMAIN earliest_by_symbol[r] :
                       \E i \in DOMAIN RunLog(r) :
                          RunLog(r)[i].kind = "syncing" /\ RunLog(r)[i].sym = symbol)
  /\ [][AppendOnly]_vars

\* A run over two symbols has returned Ok: one symbol finished, one failed,
\* and "History worker completed" is the last line.
C29_Witness ==
  \E r \in Runs :
    /\ pc[r] = "done" /\ result[r].ok
    /\ Len(RunLog(r)) = 7
    /\ RunLog(r)[7].kind = "completed"
    /\ \E i, j \in DOMAIN RunLog(r) :
         RunLog(r)[i].kind = "finished" /\ RunLog(r)[j].kind = "failed"

\* C30: in every result of get_data_stats the counts by status add up to
\* the number of stocks: complete_data + partial_data + missing_data =
\* total_stocks.
C30_StatsPartition ==
  stage = "stats_done" =>
    output.complete_data + output.partial_data + output.missing_data = output.total_stocks

====
